---- MODULE Spec2Model ----
(***************************************************************************)
(* Billing engine of wms-api (src/src/routes/billingEngine.js): exchange   *)
(* rates, billing events, invoice generation, the invoice lifecycle and    *)
(* the per client-month invoice sequence.                                  *)
(*                                                                         *)
(* The database tables are the state.  A handler that runs inside          *)
(* withTransaction is a function from the tables to the tables it leaves   *)
(* and the response it gives, and one action at its commit; the exchange   *)
(* rate PUT and DELETE handlers issue their statements on the pool, each   *)
(* statement autocommitted, so they are modelled statement by statement.   *)
(*                                                                         *)
(* Numbers: KRW amounts are whole won, THB amounts whole baht, and an      *)
(* exchange rate is kept as rate * FxScale (four decimals).  Dates are the *)
(* integer yyyymmdd, an invoice month is <<year, month>>.                  *)
(***************************************************************************)
EXTENDS Integers, Sequences, FiniteSets, TLC

VARIABLES
    invoices,    \* table invoices, row id = index
    items,       \* table invoice_items, row id = index
    events,      \* table billing_events, row id = index
    rates,       \* table exchange_rates, row id = index
    sequences,   \* table invoice_sequences: <<client_id, yyyymm>> -> last_seq, 0 = no row
    rateReq,     \* the exchange-rate PUT/DELETE request in flight, between its statements
    txs,         \* the transactions in flight that run statement by statement
    orders,      \* table inbound_orders, row id = index
    logs,        \* table inbound_order_logs, row id = index
    reqs         \* the inbound-order requests in flight, between their statements

vars == <<invoices, items, events, rates, sequences, rateReq, txs, orders, logs, reqs>>
db == <<invoices, items, events, rates, sequences>>
inbound == <<orders, logs, reqs>>

----------------------------------------------------------------------------
(* Bounds of the model *)

MaxInvoices == 3
MaxEvents == 2
MaxRates == 2

(* SQL NULL in a numeric column *)
NULL == -1

(* rates are stored as rate * FxScale *)
FxScale == 10000

Clients == {1, 2}
InvoiceMonths == {<<2026, 12>>}
InvoiceDates == {20261130, 20261231}

(* request bodies of POST and PUT /billing/settings/exchange-rates *)
RatePayloads ==
    {[rate_date |-> 20261201, rate |-> 391234, locked |-> FALSE, status |-> "active"],
     [rate_date |-> 20261215, rate |-> 400000, locked |-> FALSE, status |-> "active"],
     [rate_date |-> 20261215, rate |-> 391234, locked |-> TRUE, status |-> "draft"]}

(* request bodies of POST /billing/events *)
EventPayloads ==
    {[client_id |-> 1, service_code |-> "TH_SHIPPING", event_date |-> 20261203, qty |-> 1,
      pricing_policy |-> "THB_BASED", unit_price_thb |-> 120, amount_thb |-> 120,
      unit_price_krw |-> NULL, amount_krw |-> NULL],
     [client_id |-> 1, service_code |-> "OUTBOUND_FEE", event_date |-> 20261231, qty |-> 3,
      pricing_policy |-> "KRW_FIXED", unit_price_thb |-> NULL, amount_thb |-> NULL,
      unit_price_krw |-> 3500, amount_krw |-> NULL],
     [client_id |-> 1, service_code |-> "TH_SHIPPING", event_date |-> 20270101, qty |-> 5,
      pricing_policy |-> "THB_BASED", unit_price_thb |-> 8, amount_thb |-> NULL,
      unit_price_krw |-> NULL, amount_krw |-> NULL],
     [client_id |-> 2, service_code |-> "TH_BOX", event_date |-> 20261201, qty |-> 5,
      pricing_policy |-> "THB_BASED", unit_price_thb |-> 8, amount_thb |-> 40,
      unit_price_krw |-> NULL, amount_krw |-> NULL],
     [client_id |-> 1, service_code |-> "VAT_7", event_date |-> 20261215, qty |-> 1,
      pricing_policy |-> "KRW_FIXED", unit_price_thb |-> NULL, amount_thb |-> NULL,
      unit_price_krw |-> 1000, amount_krw |-> 1000],
     [client_id |-> 1, service_code |-> "TH_SHIPPING", event_date |-> 20261210, qty |-> 0,
      pricing_policy |-> "THB_BASED", unit_price_thb |-> NULL, amount_thb |-> 10000,
      unit_price_krw |-> NULL, amount_krw |-> NULL]}

(* request bodies of POST /billing/settings/exchange-rates for one rate_date, two values *)
AmountRatePayloads ==
    {[rate_date |-> 20261201, rate |-> 391234, locked |-> FALSE, status |-> "active"],
     [rate_date |-> 20261201, rate |-> 381600, locked |-> FALSE, status |-> "active"]}

----------------------------------------------------------------------------
(* JavaScript numbers.  Number(...) of a decimal and the product of two numbers are IEEE-754
   doubles: the exact value rounded to 53 significant bits, ties to even.  A double is kept
   as [m, e], the value m * 2^e with m below 2^53; m is a natural number in limbs of 12
   bits, least significant first, because it does not fit the integers of the checker. *)

RECURSIVE Pow2(_), BigOf(_), BigTrim(_), BigMulSmall(_, _, _), BigDivSmall(_, _)
RECURSIVE BitLen(_), BigAdd(_, _, _), BigMul(_, _), BigToInt(_)

Limb == 4096
LimbBits == 12

(* the element of a one-element set: in The({F(v) : v \in {x}}) the intermediate result x is
   computed once, whatever the number of places F uses it in *)
The(S) == CHOOSE x \in S : TRUE

Pow2(k) == IF k = 0 THEN 1 ELSE 2 * Pow2(k - 1)

BigOf(n) == IF n = 0 THEN <<>> ELSE <<n % Limb>> \o BigOf(n \div Limb)

BigTrim(b) == IF b # <<>> /\ b[Len(b)] = 0 THEN BigTrim(SubSeq(b, 1, Len(b) - 1)) ELSE b

(* b * k + carry, k below 2^18 *)
BigMulSmall(b, k, carry) ==
    IF b = <<>> THEN BigOf(carry)
    ELSE The({<<x % Limb>> \o BigMulSmall(Tail(b), k, x \div Limb) : x \in {Head(b) * k + carry}})

(* quotient and remainder of b by d, d below 2^18 *)
BigDivSmall(b, d) ==
    IF b = <<>> THEN [q |-> <<>>, r |-> 0]
    ELSE The({[q |-> BigTrim(<<(high.r * Limb + Head(b)) \div d>> \o high.q),
               r |-> (high.r * Limb + Head(b)) % d] : high \in {BigDivSmall(Tail(b), d)}})

BitLen(n) == IF n = 0 THEN 0 ELSE 1 + BitLen(n \div 2)

BigBitLen(b) == IF b = <<>> THEN 0 ELSE LimbBits * (Len(b) - 1) + BitLen(b[Len(b)])

(* floor(b / 2^s), and whether a one bit was dropped *)
BigShiftRight(b, s) ==
    LET limbs == IF s \div LimbBits < Len(b) THEN s \div LimbBits ELSE Len(b)
    IN The({[q |-> IF s \div LimbBits < Len(b) THEN rest.q ELSE <<>>,
             sticky |-> (\E k \in 1..limbs : b[k] # 0)
                          \/ (s \div LimbBits < Len(b) /\ rest.r # 0)] :
            rest \in {BigDivSmall(SubSeq(b, limbs + 1, Len(b)), Pow2(s % LimbBits))}})

(* the double that keeps the 53 leading bits of cut.q, whose last bit is the first bit dropped:
   rounded up when more than a half is dropped, or a half and the kept part is odd *)
RoundCut(cut, kept, e, sticky) ==
    LET half == cut.q[1] % 2 = 1
        odd == kept[1] % 2 = 1
    IN [m |-> IF half /\ (cut.sticky \/ sticky \/ odd) THEN BigTrim(BigMulSmall(kept, 1, 1))
              ELSE kept,
        e |-> e]

(* the nearest double to b * 2^e, ties to even; sticky says that b stands for a value
   slightly above it *)
Round53(b, e, sticky) ==
    IF BigBitLen(b) <= 53 THEN [m |-> b, e |-> e]
    ELSE The({The({RoundCut(cut, kept, e + BigBitLen(b) - 53, sticky) :
                   kept \in {BigDivSmall(cut.q, 2).q}}) :
              cut \in {BigShiftRight(b, BigBitLen(b) - 54)}})

(* Number(s) for the decimal numerator / scale *)
JsNumber(numerator, scale) ==
    IF numerator = 0 THEN [m |-> <<>>, e |-> 0]
    ELSE The({Round53(division.q, -72, division.r # 0) :
              division \in {BigDivSmall([k \in 1..6 |-> 0] \o BigOf(numerator), scale)}})

BigAdd(b, c, carry) ==
    IF b = <<>> /\ c = <<>> THEN BigOf(carry)
    ELSE The({<<x % Limb>> \o BigAdd(IF b = <<>> THEN b ELSE Tail(b),
                                     IF c = <<>> THEN c ELSE Tail(c), x \div Limb) :
              x \in {(IF b = <<>> THEN 0 ELSE Head(b)) + (IF c = <<>> THEN 0 ELSE Head(c))
                       + carry}})

BigMul(b, c) ==
    IF c = <<>> THEN <<>>
    ELSE The({BigAdd(low, <<0>> \o high, 0) :
              low \in {BigMulSmall(b, Head(c), 0)}, high \in {BigMul(b, Tail(c))}})

(* x * y for a non-negative integer x, which is a double as it is, and a double y *)
JsTimes(x, y) ==
    The({Round53(product, y.e, FALSE) : product \in {BigTrim(BigMul(y.m, BigOf(x)))}})

BigToInt(b) == IF b = <<>> THEN 0 ELSE Head(b) + Limb * BigToInt(Tail(b))

(* Math.floor(y / 100) * 100 for a double y >= 0.  The quotient y / 100 is a double too, but
   its floor is the floor of the exact quotient: a double below 100 * k is below it by more
   than the rounding of the division can make up, and 100 * k / 100 is exact *)
JsTrunc100(y) ==
    LET floor == IF y.e >= 0 THEN BigMulSmall(y.m, Pow2(y.e), 0)
                 ELSE BigShiftRight(y.m, -y.e).q
    IN (BigToInt(floor) \div 100) * 100

(* Math.floor(x * Number(numerator / scale) / 100) * 100 *)
JsTrunc100Times(x, numerator, scale) ==
    The({The({JsTrunc100(product) : product \in {JsTimes(x, y)}}) :
         y \in {JsNumber(numerator, scale)}})

----------------------------------------------------------------------------
(* Pure helpers *)

(* mutant: truncation to the ten *)
trunc100_ToTen(input) == (input \div 10) * 10

(* Math.floor(Number(input || 0) / 100) * 100 *)
trunc100(input) == (input \div 100) * 100

(* amount resolution: the billing_events rows generate reads, with every combination of
   present and missing amount columns, and request bodies with explicit, zero and derived
   amounts *)
StoredRows ==
    {[client_id |-> 1, service_code |-> "TH_SHIPPING", event_date |-> 20261203, qty |-> qty,
      pricing_policy |-> policy, unit_price_thb |-> unitThb, amount_thb |-> amountThb,
      unit_price_krw |-> unitKrw, amount_krw |-> amountKrw,
      fx_rate_thbkrw |-> NULL, invoice_id |-> NULL, status |-> "PENDING"] :
        qty \in {0, 3}, policy \in {"THB_BASED", "KRW_FIXED"},
        unitThb \in {NULL, 40}, amountThb \in {NULL, 0, 10000},
        unitKrw \in {NULL, 3500}, amountKrw \in {NULL, 0, 1000}}

AmountPayloads ==
    {[client_id |-> 1, service_code |-> "TH_BOX", event_date |-> 20261203, qty |-> 3,
      pricing_policy |-> policy, unit_price_thb |-> 40, amount_thb |-> amountThb,
      unit_price_krw |-> 3500, amount_krw |-> amountKrw] :
        policy \in {"THB_BASED", "KRW_FIXED"}, amountThb \in {NULL, 0}, amountKrw \in {NULL, 0}}

(* The products the request bodies lead to, each computed once and kept with its operands:
   the THB amounts and the rates the bodies carry, and the subtotals that up to three
   normalized amounts add up to.  trunc100Fx and vatOf take a product from here and compute
   it when it is not here. *)
RateValues == {p.rate : p \in RatePayloads \cup AmountRatePayloads}

AmountOf(amount, unitPrice, qty) ==
    IF amount # NULL THEN amount
    ELSE (IF unitPrice = NULL THEN 0 ELSE unitPrice) * (IF qty = NULL THEN 0 ELSE qty)

ThbAmounts ==
    {0} \cup {AmountOf(p.amount_thb, p.unit_price_thb, p.qty) :
                p \in {q \in EventPayloads : q.pricing_policy = "THB_BASED"}}

KrwAmounts ==
    {trunc100(AmountOf(p.amount_krw, p.unit_price_krw, p.qty)) :
        p \in {q \in EventPayloads : q.pricing_policy = "KRW_FIXED"}}

FxProducts ==
    {<<a, r, JsTrunc100Times(a, r, FxScale)>> : a \in ThbAmounts, r \in RateValues}

NormalizedAmounts == {t[3] : t \in FxProducts} \cup KrwAmounts \cup {0}

VatProducts ==
    {<<s, JsTrunc100Times(s, 7, 100)>> :
        s \in {a + b + c : a \in NormalizedAmounts, b \in NormalizedAmounts,
                           c \in NormalizedAmounts}}

(* trunc100(amountThb * fx), fx = Number(rate column), the rate column being rate / FxScale *)
trunc100Fx(amountThb, rate) ==
    IF \E t \in FxProducts : t[1] = amountThb /\ t[2] = rate
    THEN (CHOOSE t \in FxProducts : t[1] = amountThb /\ t[2] = rate)[3]
    ELSE JsTrunc100Times(amountThb, rate, FxScale)

(* mutant: the first day of the following month belongs to the range *)
monthRange_Inclusive(invoiceMonth) ==
    LET year == invoiceMonth[1]
        month == invoiceMonth[2]
    IN [from |-> year * 10000 + month * 100 + 1,
        to |-> IF month = 12 THEN (year + 1) * 10000 + 102
               ELSE year * 10000 + (month + 1) * 100 + 2]

monthRange(invoiceMonth) ==
    LET year == invoiceMonth[1]
        month == invoiceMonth[2]
    IN [from |-> year * 10000 + month * 100 + 1,
        to |-> IF month = 12 THEN (year + 1) * 10000 + 101
               ELSE year * 10000 + (month + 1) * 100 + 1]

yyyymmOf(invoiceMonth) == invoiceMonth[1] * 100 + invoiceMonth[2]

SeqKeys == {<<c, yyyymmOf(m)>> : c \in Clients, m \in InvoiceMonths}

(* mutant: the sequence value is left out of the number *)
invoiceNoOf_WithoutSeq(clientId, yyyymm, seq) == <<"KRW", clientId, yyyymm, 1>>

(* `KRW-${client_id}-${yyyymm}-${seq padded to 4}`: the three parts that vary *)
invoiceNoOf(clientId, yyyymm, seq) == <<"KRW", clientId, yyyymm, seq>>

Max(S) == CHOOSE x \in S : \A y \in S : y <= x

(* ids of a table in ascending order (ORDER BY id ASC) *)
RECURSIVE SortedIds(_)
SortedIds(S) ==
    IF S = {} THEN <<>>
    ELSE LET lo == CHOOSE x \in S : \A y \in S : x <= y
         IN <<lo>> \o SortedIds(S \ {lo})

(* Number(x || 0) *)
Num(x) == IF x = NULL THEN 0 ELSE x

----------------------------------------------------------------------------
(* Queries and updates of the handlers, as functions of the tables *)

(* SELECT id, status FROM invoices WHERE client_id = ? AND invoice_month = ?
   AND deleted_at IS NULL ORDER BY id DESC LIMIT 1; 0 = no row *)
ExistingInvoice(invs, clientId, invoiceMonth) ==
    LET S == {i \in 1..Len(invs) : /\ invs[i].client_id = clientId
                                   /\ invs[i].invoice_month = invoiceMonth
                                   /\ ~invs[i].deleted}
    IN IF S = {} THEN 0 ELSE Max(S)

(* mutant: the reverted events keep the frozen rate *)
RevertEventsOfInvoice_KeepsRate(evs, invoiceId) ==
    [e \in 1..Len(evs) |->
        IF evs[e].invoice_id = invoiceId
        THEN [evs[e] EXCEPT !.status = "PENDING", !.invoice_id = NULL]
        ELSE evs[e]]

(* UPDATE billing_events SET status = 'PENDING', invoice_id = NULL,
   fx_rate_thbkrw = NULL WHERE invoice_id = ? *)
RevertEventsOfInvoice(evs, invoiceId) ==
    [e \in 1..Len(evs) |->
        IF evs[e].invoice_id = invoiceId
        THEN [evs[e] EXCEPT !.status = "PENDING", !.invoice_id = NULL, !.fx_rate_thbkrw = NULL]
        ELSE evs[e]]

(* UPDATE invoice_items SET deleted_at = NOW() WHERE invoice_id = ? AND deleted_at IS NULL *)
SoftDeleteItems(its, invoiceId) ==
    [k \in 1..Len(its) |->
        IF its[k].invoice_id = invoiceId THEN [its[k] EXCEPT !.deleted = TRUE] ELSE its[k]]

(* UPDATE invoices SET deleted_at = NOW() WHERE id = ? *)
SoftDeleteInvoice(invs, invoiceId) ==
    [invs EXCEPT ![invoiceId].deleted = TRUE]

(* mutant: the status of the rate is not looked at *)
ApplicableRate_AnyStatus(rts, invoiceDate) ==
    LET S == {r \in 1..Len(rts) : /\ ~rts[r].deleted
                                  /\ rts[r].rate_date <= invoiceDate}
    IN IF S = {} THEN 0
       ELSE CHOOSE r \in S : \A q \in S :
                \/ rts[q].rate_date < rts[r].rate_date
                \/ (rts[q].rate_date = rts[r].rate_date /\ q <= r)

(* SELECT id, rate FROM exchange_rates WHERE deleted_at IS NULL AND status = 'active'
   AND rate_date <= ? ORDER BY rate_date DESC, id DESC LIMIT 1; 0 = no row *)
ApplicableRate(rts, invoiceDate) ==
    LET S == {r \in 1..Len(rts) : /\ ~rts[r].deleted
                                  /\ rts[r].status = "active"
                                  /\ rts[r].rate_date <= invoiceDate}
    IN IF S = {} THEN 0
       ELSE CHOOSE r \in S : \A q \in S :
                \/ rts[q].rate_date < rts[r].rate_date
                \/ (rts[q].rate_date = rts[r].rate_date /\ q <= r)

(* mutant: the pending events of every client *)
PendingEvents_AnyClient(evs, clientId, range) ==
    SortedIds({e \in 1..Len(evs) : /\ evs[e].status = "PENDING"
                                   /\ evs[e].event_date >= range.from
                                   /\ evs[e].event_date < range.to})

(* SELECT ... FROM billing_events WHERE client_id = ? AND status = 'PENDING'
   AND event_date >= ? AND event_date < ? ORDER BY id ASC *)
PendingEvents(evs, clientId, range) ==
    SortedIds({e \in 1..Len(evs) : /\ evs[e].client_id = clientId
                                   /\ evs[e].status = "PENDING"
                                   /\ evs[e].event_date >= range.from
                                   /\ evs[e].event_date < range.to})

(* mutant: an existing counter row is returned as it is, without the increment *)
resolveInvoiceSequence_NoIncrement(seqs, clientId, yyyymm) ==
    LET key == <<clientId, yyyymm>>
        nextSeq == IF seqs[key] = 0 THEN 1 ELSE seqs[key]
    IN [nextSeq |-> nextSeq, sequences |-> [seqs EXCEPT ![key] = nextSeq]]

(* resolveInvoiceSequence: the value returned and the table after it *)
resolveInvoiceSequence(seqs, clientId, yyyymm) ==
    LET key == <<clientId, yyyymm>>
        nextSeq == IF seqs[key] = 0 THEN 1 ELSE seqs[key] + 1
    IN [nextSeq |-> nextSeq, sequences |-> [seqs EXCEPT ![key] = nextSeq]]

(* mutant: a THB_BASED event that carries an amount_krw is converted from it *)
normalizedAmount_ConvertsTwice(event, fx) ==
    IF event.pricing_policy = "THB_BASED"
    THEN LET amountThb == IF event.amount_krw # NULL THEN event.amount_krw
                          ELSE IF event.amount_thb # NULL THEN event.amount_thb
                          ELSE Num(event.unit_price_thb) * Num(event.qty)
         IN trunc100Fx(amountThb, fx)
    ELSE LET amountKrw == IF event.amount_krw # NULL THEN event.amount_krw
                          ELSE Num(event.unit_price_krw) * Num(event.qty)
         IN trunc100(amountKrw)

(* mutant: an explicit amount of 0 is taken as missing *)
normalizedAmount_ZeroIsMissing(event, fx) ==
    IF event.pricing_policy = "THB_BASED"
    THEN LET amountThb == IF Num(event.amount_thb) # 0 THEN event.amount_thb
                          ELSE Num(event.unit_price_thb) * Num(event.qty)
         IN trunc100Fx(amountThb, fx)
    ELSE LET amountKrw == IF Num(event.amount_krw) # 0 THEN event.amount_krw
                          ELSE Num(event.unit_price_krw) * Num(event.qty)
         IN trunc100(amountKrw)

(* the normalizedAmount of one event at the rate fx *)
normalizedAmount(event, fx) ==
    IF event.pricing_policy = "THB_BASED"
    THEN LET amountThb == IF event.amount_thb # NULL THEN event.amount_thb
                          ELSE Num(event.unit_price_thb) * Num(event.qty)
         IN trunc100Fx(amountThb, fx)
    ELSE LET amountKrw == IF event.amount_krw # NULL THEN event.amount_krw
                          ELSE Num(event.unit_price_krw) * Num(event.qty)
         IN trunc100(amountKrw)

(* UPDATE billing_events SET amount_krw = ?, fx_rate_thbkrw = ?, status = 'INVOICED',
   invoice_id = ? WHERE id = ?, for every selected event *)
MarkInvoiced(evs, ids, fx, invoiceId) ==
    [e \in 1..Len(evs) |->
        IF \E k \in 1..Len(ids) : ids[k] = e
        THEN [evs[e] EXCEPT !.amount_krw = normalizedAmount(evs[e], fx),
                            !.fx_rate_thbkrw = fx,
                            !.status = "INVOICED",
                            !.invoice_id = invoiceId]
        ELSE evs[e]]

(* the Map grouped: one entry per service_code in first-seen order *)
RECURSIVE GroupEvents(_, _, _, _)
GroupEvents(evs, ids, fx, grouped) ==
    IF ids = <<>> THEN grouped
    ELSE LET event == evs[Head(ids)]
             amount == normalizedAmount(event, fx)
             hit == {k \in 1..Len(grouped) : grouped[k].service_code = event.service_code}
             next == IF hit = {}
                     THEN Append(grouped, [service_code |-> event.service_code,
                                           qty |-> Num(event.qty), amount_krw |-> amount])
                     ELSE LET k == CHOOSE k \in hit : TRUE
                          IN [grouped EXCEPT ![k].qty = @ + Num(event.qty),
                                             ![k].amount_krw = @ + amount]
         IN GroupEvents(evs, Tail(ids), fx, next)

(* mutant: the unit price is the line amount whatever the qty *)
GroupItems_UnitIsAmount(grouped, invoiceId) ==
    [k \in 1..Len(grouped) |->
        LET qty == grouped[k].qty
            lineAmount == trunc100(grouped[k].amount_krw)
            unitDisplay == lineAmount
        IN [invoice_id |-> invoiceId, service_code |-> grouped[k].service_code, qty |-> qty,
            unit_price_krw |-> unitDisplay, amount_krw |-> lineAmount, deleted |-> FALSE]]

(* the invoice_items rows inserted for the groups *)
GroupItems(grouped, invoiceId) ==
    [k \in 1..Len(grouped) |->
        LET qty == grouped[k].qty
            lineAmount == trunc100(grouped[k].amount_krw)
            unitDisplay == IF qty > 0 THEN (lineAmount \div (qty * 100)) * 100 ELSE lineAmount
        IN [invoice_id |-> invoiceId, service_code |-> grouped[k].service_code, qty |-> qty,
            unit_price_krw |-> unitDisplay, amount_krw |-> lineAmount, deleted |-> FALSE]]

RECURSIVE SumAmounts(_)
SumAmounts(rows) ==
    IF rows = <<>> THEN 0 ELSE Head(rows).amount_krw + SumAmounts(Tail(rows))

(* mutant: ten per cent *)
vatOf_TenPercent(subtotalKrw) == JsTrunc100Times(subtotalKrw, 10, 100)

(* trunc100(subtotalKrw * 0.07) *)
vatOf(subtotalKrw) ==
    IF \E t \in VatProducts : t[1] = subtotalKrw
    THEN (CHOOSE t \in VatProducts : t[1] = subtotalKrw)[2]
    ELSE JsTrunc100Times(subtotalKrw, 7, 100)

VatItem(invoiceId, vatKrw) ==
    [invoice_id |-> invoiceId, service_code |-> "VAT_7", qty |-> 1,
     unit_price_krw |-> vatKrw, amount_krw |-> vatKrw, deleted |-> FALSE]

----------------------------------------------------------------------------
(* Responses *)

(* the fields of a handler's answer that the properties read *)
Response(code) ==
    [code |-> code, invoice_id |-> NULL, reused |-> FALSE, events_count |-> NULL]

(* withTransaction(callback): the callback's writes are committed when it returns, whatever
   it returns, and rolled back when it throws; tx is what the callback wrote and returned,
   threw tells whether a statement of it failed *)
withTransaction(tx, threw) ==
    IF threw
    THEN [tables |-> db, response |-> Response("INTERNAL_ERROR")]
    ELSE tx

----------------------------------------------------------------------------
(* POST /billing/invoices/generate: the transaction callback *)

(* events.length === 0 *)
NoPendingEvents_Skipped(ids) == FALSE

NoPendingEvents(ids) == Len(ids) = 0

(* mutants of ExistingBranch: the draft is not replaced but kept beside the new invoice;
   the status is not looked at when regenerating; the regenerate_draft flag is not looked
   at; a paid invoice does not block *)
ExistingBranch_KeepsDraft(existing, regenerateDraft) ==
    IF existing = 0 THEN "fresh"
    ELSE IF invoices[existing].status # "draft" THEN "blocked"
    ELSE IF ~regenerateDraft THEN "reuse"
    ELSE "fresh"

ExistingBranch_IgnoresStatus(existing, regenerateDraft) ==
    IF existing = 0 THEN "fresh"
    ELSE IF regenerateDraft THEN "regenerate"
    ELSE IF invoices[existing].status # "draft" THEN "blocked"
    ELSE "reuse"

ExistingBranch_IgnoresFlag(existing, regenerateDraft) ==
    IF existing = 0 THEN "fresh"
    ELSE IF invoices[existing].status # "draft" THEN "blocked"
    ELSE "regenerate"

ExistingBranch_PaidNotBlocked(existing, regenerateDraft) ==
    IF existing = 0 THEN "fresh"
    ELSE IF invoices[existing].status = "issued" THEN "blocked"
    ELSE IF ~regenerateDraft THEN "reuse"
    ELSE "regenerate"

(* the branch taken on the existing invoice of the client-month *)
ExistingBranch(existing, regenerateDraft) ==
    IF existing = 0 THEN "fresh"
    ELSE IF invoices[existing].status # "draft" THEN "blocked"
    ELSE IF ~regenerateDraft THEN "reuse"
    ELSE "regenerate"

(* from the sequence allocation on: the invoice row, its items, the totals and the events
   marked INVOICED, for the rate value fx and the selected events ids *)
GenerateInsert(clientId, invoiceMonth, invoiceDate, fx, ids, invoices1, items1, events1, rates1, sequences1) ==
    LET yyyymm == yyyymmOf(invoiceMonth)
        seq == resolveInvoiceSequence(sequences1, clientId, yyyymm)
        invoiceId == Len(invoices1) + 1
        grouped == GroupEvents(events1, ids, fx, <<>>)
        groupItems == GroupItems(grouped, invoiceId)
        subtotalKrw == trunc100(SumAmounts(groupItems))
        vatKrw == vatOf(subtotalKrw)
        totalKrw == trunc100(subtotalKrw + vatKrw)
        invoice == [client_id |-> clientId, invoice_month |-> invoiceMonth,
                    invoice_no |-> invoiceNoOf(clientId, yyyymm, seq.nextSeq),
                    status |-> "draft", invoice_date |-> invoiceDate,
                    fx_rate_thbkrw |-> fx, subtotal_krw |-> subtotalKrw,
                    vat_krw |-> vatKrw, total_krw |-> totalKrw, deleted |-> FALSE]
    IN [tables |-> <<Append(invoices1, invoice),
                     Append(items1 \o groupItems, VatItem(invoiceId, vatKrw)),
                     MarkInvoiced(events1, ids, fx, invoiceId),
                     rates1,
                     seq.sequences>>,
        response |-> [Response("OK") EXCEPT !.invoice_id = invoiceId,
                                            !.events_count = Len(ids)]]

(* mutant: the sequence is allocated before the pending events are looked at *)
GenerateFresh_AllocatesFirst(clientId, invoiceMonth, invoiceDate, invoices1, items1, events1) ==
    LET fxRateId == ApplicableRate(rates, invoiceDate)
    IN IF fxRateId = 0
       THEN [tables |-> <<invoices1, items1, events1, rates, sequences>>,
             response |-> Response("FX_NOT_FOUND")]
       ELSE
       LET fx == rates[fxRateId].rate
           rates1 == [rates EXCEPT ![fxRateId].locked = TRUE]
           ids == PendingEvents(events1, clientId, monthRange(invoiceMonth))
           seq == resolveInvoiceSequence(sequences, clientId, yyyymmOf(invoiceMonth))
       IN IF NoPendingEvents(ids)
          THEN [tables |-> <<invoices1, items1, events1, rates1, seq.sequences>>,
                response |-> Response("NO_PENDING_EVENTS")]
          ELSE GenerateInsert(clientId, invoiceMonth, invoiceDate, fx, ids,
                              invoices1, items1, events1, rates1, sequences)

(* from the rate lookup on; invoices1, items1, events1 are the tables as the branch on the
   existing invoice left them *)
GenerateFresh(clientId, invoiceMonth, invoiceDate, invoices1, items1, events1) ==
    LET fxRateId == ApplicableRate(rates, invoiceDate)
    IN IF fxRateId = 0
       THEN [tables |-> <<invoices1, items1, events1, rates, sequences>>,
             response |-> Response("FX_NOT_FOUND")]
       ELSE
       LET fx == rates[fxRateId].rate
           rates1 == [rates EXCEPT ![fxRateId].locked = TRUE]
           ids == PendingEvents(events1, clientId, monthRange(invoiceMonth))
       IN IF NoPendingEvents(ids)
          THEN [tables |-> <<invoices1, items1, events1, rates1, sequences>>,
                response |-> Response("NO_PENDING_EVENTS")]
          ELSE GenerateInsert(clientId, invoiceMonth, invoiceDate, fx, ids,
                              invoices1, items1, events1, rates1, sequences)

GenerateTx(clientId, invoiceMonth, invoiceDate, regenerateDraft) ==
    LET existing == ExistingInvoice(invoices, clientId, invoiceMonth)
        branch == ExistingBranch(existing, regenerateDraft)
    IN CASE branch = "blocked" ->
              [tables |-> db, response |-> Response("INVOICE_ALREADY_ISSUED")]
         [] branch = "reuse" ->
              [tables |-> db,
               response |-> [Response("OK") EXCEPT !.invoice_id = existing, !.reused = TRUE]]
         [] branch = "regenerate" ->
              GenerateFresh(clientId, invoiceMonth, invoiceDate,
                            SoftDeleteInvoice(invoices, existing),
                            SoftDeleteItems(items, existing),
                            RevertEventsOfInvoice(events, existing))
         [] OTHER ->
              GenerateFresh(clientId, invoiceMonth, invoiceDate, invoices, items, events)

(* a handler that runs in withTransaction: the tables it leaves *)
Commit(tx, threw) ==
    LET done == withTransaction(tx, threw)
    IN /\ Len(done.tables[1]) <= MaxInvoices
       /\ invoices' = done.tables[1]
       /\ items' = done.tables[2]
       /\ events' = done.tables[3]
       /\ rates' = done.tables[4]
       /\ sequences' = done.tables[5]
       /\ UNCHANGED <<rateReq, txs, inbound>>

Generate ==
    \E clientId \in {1}, invoiceMonth \in InvoiceMonths, invoiceDate \in InvoiceDates,
       regenerateDraft \in BOOLEAN :
        Commit(GenerateTx(clientId, invoiceMonth, invoiceDate, regenerateDraft), FALSE)

(* a statement of the generate callback fails after its writes: withTransaction rolls back
   and the handler answers 500 *)
TxFails ==
    \E clientId \in {1}, invoiceMonth \in InvoiceMonths, invoiceDate \in InvoiceDates,
       regenerateDraft \in BOOLEAN :
        Commit(GenerateTx(clientId, invoiceMonth, invoiceDate, regenerateDraft), TRUE)

----------------------------------------------------------------------------
(* POST /billing/invoices/:id/issue, /mark-paid, /duplicate-admin *)

(* mutant: soft-deleted rows are found too *)
InvoiceFound_IgnoresDeleted(invoiceId) ==
    invoiceId \in 1..Len(invoices)

(* SELECT ... FROM invoices WHERE id = ? AND deleted_at IS NULL LIMIT 1 *)
InvoiceFound(invoiceId) ==
    invoiceId \in 1..Len(invoices) /\ ~invoices[invoiceId].deleted

IssueTx(invoiceId) ==
    IF ~InvoiceFound(invoiceId)
    THEN [tables |-> db, response |-> Response("NOT_FOUND")]
    ELSE IF invoices[invoiceId].status # "draft"
    THEN [tables |-> db, response |-> Response("INVALID_STATUS")]
    ELSE [tables |-> <<[invoices EXCEPT ![invoiceId].status = "issued"],
                       items, events, rates, sequences>>,
          response |-> [Response("OK") EXCEPT !.invoice_id = invoiceId]]

(* mutant: the status is not checked *)
MarkPaidTx_AnyStatus(invoiceId) ==
    IF ~InvoiceFound(invoiceId)
    THEN [tables |-> db, response |-> Response("NOT_FOUND")]
    ELSE [tables |-> <<[invoices EXCEPT ![invoiceId].status = "paid"],
                       items, events, rates, sequences>>,
          response |-> [Response("OK") EXCEPT !.invoice_id = invoiceId]]

MarkPaidTx(invoiceId) ==
    IF ~InvoiceFound(invoiceId)
    THEN [tables |-> db, response |-> Response("NOT_FOUND")]
    ELSE IF invoices[invoiceId].status # "issued"
    THEN [tables |-> db, response |-> Response("INVALID_STATUS")]
    ELSE [tables |-> <<[invoices EXCEPT ![invoiceId].status = "paid"],
                       items, events, rates, sequences>>,
          response |-> [Response("OK") EXCEPT !.invoice_id = invoiceId]]

(* INSERT INTO invoice_items ... SELECT ?, ... FROM invoice_items
   WHERE invoice_id = ? AND deleted_at IS NULL *)
CopyItems(its, sourceInvoiceId, newInvoiceId) ==
    LET src == SortedIds({k \in 1..Len(its) : its[k].invoice_id = sourceInvoiceId
                                              /\ ~its[k].deleted})
    IN [k \in 1..Len(src) |-> [its[src[k]] EXCEPT !.invoice_id = newInvoiceId]]

(* mutant: a draft is copied too *)
DuplicateAdminTx_AnyStatus(sourceInvoiceId) ==
    IF ~InvoiceFound(sourceInvoiceId)
    THEN [tables |-> db, response |-> Response("NOT_FOUND")]
    ELSE
    LET source == invoices[sourceInvoiceId]
        yyyymm == yyyymmOf(source.invoice_month)
        seq == resolveInvoiceSequence(sequences, source.client_id, yyyymm)
        newInvoiceId == Len(invoices) + 1
        created == [source EXCEPT !.invoice_no = invoiceNoOf(source.client_id, yyyymm, seq.nextSeq),
                                  !.status = "draft"]
    IN [tables |-> <<Append(invoices, created),
                     items \o CopyItems(items, sourceInvoiceId, newInvoiceId),
                     events, rates, seq.sequences>>,
        response |-> [Response("OK") EXCEPT !.invoice_id = newInvoiceId]]

(* POST /billing/invoices/:id/duplicate-admin: the transaction callback *)
DuplicateAdminTx(sourceInvoiceId) ==
    IF ~InvoiceFound(sourceInvoiceId)
    THEN [tables |-> db, response |-> Response("NOT_FOUND")]
    ELSE IF invoices[sourceInvoiceId].status = "draft"
    THEN [tables |-> db, response |-> Response("INVALID_STATUS")]
    ELSE
    LET source == invoices[sourceInvoiceId]
        yyyymm == yyyymmOf(source.invoice_month)
        seq == resolveInvoiceSequence(sequences, source.client_id, yyyymm)
        newInvoiceId == Len(invoices) + 1
        created == [source EXCEPT !.invoice_no = invoiceNoOf(source.client_id, yyyymm, seq.nextSeq),
                                  !.status = "draft"]
    IN [tables |-> <<Append(invoices, created),
                     items \o CopyItems(items, sourceInvoiceId, newInvoiceId),
                     events, rates, seq.sequences>>,
        response |-> [Response("OK") EXCEPT !.invoice_id = newInvoiceId]]

(* the ids a request names: those of the rows and one that is missing *)
InvoiceIds == 1..(IF Len(invoices) < MaxInvoices THEN Len(invoices) + 1 ELSE MaxInvoices)

Issue ==
    \E invoiceId \in InvoiceIds : Commit(IssueTx(invoiceId), FALSE)

MarkPaid ==
    \E invoiceId \in InvoiceIds : Commit(MarkPaidTx(invoiceId), FALSE)

DuplicateAdmin ==
    \E invoiceId \in InvoiceIds : Commit(DuplicateAdminTx(invoiceId), FALSE)

----------------------------------------------------------------------------
(* POST /billing/events/mark-pending and POST /billing/events *)

(* invoice_status of the row joined to an event: LEFT JOIN invoices i
   ON i.id = be.invoice_id AND i.deleted_at IS NULL *)
JoinedInvoiceStatus(event) ==
    IF event.invoice_id # NULL /\ InvoiceFound(event.invoice_id)
    THEN invoices[event.invoice_id].status
    ELSE "null"

(* mutants: nothing blocks; only an issued invoice blocks *)
BlockedRows_None(rows) == {}

BlockedRows_IssuedOnly(rows) ==
    {e \in rows : JoinedInvoiceStatus(events[e]) = "issued"}

(* rows.filter(r => ["issued", "paid"].includes(r.invoice_status)) *)
BlockedRows(rows) ==
    {e \in rows : JoinedInvoiceStatus(events[e]) \in {"issued", "paid"}}

MarkEventsPendingTx(ids) ==
    LET rows == {e \in ids : e \in 1..Len(events)}
    IN IF rows = {}
       THEN [tables |-> db, response |-> Response("EVENTS_NOT_FOUND")]
       ELSE IF BlockedRows(rows) # {}
       THEN [tables |-> db, response |-> Response("EVENTS_LOCKED")]
       ELSE [tables |-> <<invoices, items,
                          [e \in 1..Len(events) |->
                              IF e \in ids
                              THEN [events[e] EXCEPT !.status = "PENDING", !.invoice_id = NULL,
                                                     !.fx_rate_thbkrw = NULL]
                              ELSE events[e]],
                          rates, sequences>>,
             response |-> [Response("OK") EXCEPT !.events_count = Cardinality(rows)]]

(* the ids arrays a request carries: ids.min(1) *)
EventIdSets == SUBSET (1..MaxEvents) \ {{}}

MarkEventsPending ==
    \E ids \in EventIdSets : Commit(MarkEventsPendingTx(ids), FALSE)

(* the row POST /billing/events inserts for a request body *)
EventRow(payload) ==
    LET qty == Num(payload.qty)
        amountThb == IF payload.amount_thb # NULL THEN payload.amount_thb
                     ELSE Num(payload.unit_price_thb) * qty
        amountKrw == IF payload.amount_krw # NULL THEN payload.amount_krw
                     ELSE Num(payload.unit_price_krw) * qty
    IN [client_id |-> payload.client_id, service_code |-> payload.service_code,
        event_date |-> payload.event_date, qty |-> payload.qty,
        pricing_policy |-> payload.pricing_policy,
        unit_price_thb |-> IF Num(payload.unit_price_thb) = 0 THEN NULL ELSE payload.unit_price_thb,
        amount_thb |-> IF payload.pricing_policy = "THB_BASED" THEN amountThb ELSE NULL,
        unit_price_krw |-> IF Num(payload.unit_price_krw) = 0 THEN NULL ELSE payload.unit_price_krw,
        amount_krw |-> IF payload.pricing_policy = "KRW_FIXED" THEN trunc100(amountKrw) ELSE NULL,
        fx_rate_thbkrw |-> NULL, invoice_id |-> NULL, status |-> "PENDING"]

PostEvent(payload) ==
    /\ Len(events) < MaxEvents
    /\ events' = Append(events, EventRow(payload))
    /\ UNCHANGED <<invoices, items, rates, sequences, rateReq, txs, inbound>>

(* the events of one client dated in the invoice month *)
CreateEvent ==
    \E payload \in {p \in EventPayloads : p.client_id = 1 /\ p.event_date = 20261203} :
        PostEvent(payload)

----------------------------------------------------------------------------
(* /billing/settings/exchange-rates: POST, PUT /:id, DELETE /:id *)

(* the unique key on rate_date behind ER_DUP_ENTRY *)
DuplicateRateDate(rateDate, exceptId) ==
    \E r \in 1..Len(rates) : r # exceptId /\ rates[r].rate_date = rateDate

(* mutant: the row is inserted locked whatever the body says *)
PostExchangeRate_AlwaysLocked(payload) ==
    /\ Len(rates) < MaxRates
    /\ IF DuplicateRateDate(payload.rate_date, 0)
       THEN UNCHANGED rates
       ELSE rates' = Append(rates, [rate_date |-> payload.rate_date, rate |-> payload.rate,
                                    locked |-> TRUE, status |-> payload.status,
                                    deleted |-> FALSE])
    /\ UNCHANGED <<invoices, items, events, sequences, rateReq, txs, inbound>>

PostExchangeRate(payload) ==
    /\ Len(rates) < MaxRates
    /\ IF DuplicateRateDate(payload.rate_date, 0)
       THEN UNCHANGED rates
       ELSE rates' = Append(rates, [rate_date |-> payload.rate_date, rate |-> payload.rate,
                                    locked |-> payload.locked, status |-> payload.status,
                                    deleted |-> FALSE])
    /\ UNCHANGED <<invoices, items, events, sequences, rateReq, txs, inbound>>

CreateRate ==
    \E payload \in {p \in RatePayloads : p.rate_date = 20261201} : PostExchangeRate(payload)

getExchangeRateUsageCount(exchangeRateId) ==
    IF exchangeRateId \notin 1..Len(rates) THEN 0
    ELSE Cardinality({i \in 1..Len(invoices) :
                        /\ ~invoices[i].deleted
                        /\ invoices[i].fx_rate_thbkrw = rates[exchangeRateId].rate})

Idle == [pc |-> "idle", kind |-> "none", id |-> NULL, locked |-> FALSE]

(* first statement: SELECT id, locked FROM exchange_rates WHERE id = ? AND deleted_at IS NULL;
   no row answers 404 and the request is over *)
RateSelect(kind, id) ==
    /\ rateReq.pc = "idle"
    /\ IF id \in 1..Len(rates) /\ ~rates[id].deleted
       THEN rateReq' = [pc |-> "usage", kind |-> kind, id |-> id, locked |-> rates[id].locked]
       ELSE UNCHANGED rateReq
    /\ UNCHANGED <<db, txs, inbound>>

(* the check: rows[0].locked === 1 || usedCount > 0 *)
RateIsLocked(locked, usedCount) == locked \/ usedCount > 0

(* second statement: the usage count, then the check; EXCHANGE_RATE_LOCKED ends the request *)
RateUsage ==
    /\ rateReq.pc = "usage"
    /\ IF RateIsLocked(rateReq.locked, getExchangeRateUsageCount(rateReq.id))
       THEN rateReq' = Idle
       ELSE rateReq' = [rateReq EXCEPT !.pc = "write"]
    /\ UNCHANGED <<db, txs, inbound>>

(* third statement: the UPDATE, WHERE id = ? AND deleted_at IS NULL.  The request body is
   used by this statement only, so it is drawn here *)
RateWrite ==
    /\ rateReq.pc = "write"
    /\ \E payload \in RatePayloads :
       LET id == rateReq.id
       IN IF rateReq.kind = "updateRate"
          THEN IF DuplicateRateDate(payload.rate_date, id) \/ rates[id].deleted
               THEN UNCHANGED rates
               ELSE rates' = [rates EXCEPT ![id].rate_date = payload.rate_date,
                                           ![id].rate = payload.rate,
                                           ![id].locked = payload.locked,
                                           ![id].status = payload.status]
          ELSE rates' = [rates EXCEPT ![id].deleted = TRUE]
    /\ rateReq' = Idle
    /\ UNCHANGED <<invoices, items, events, sequences, txs, inbound>>

UpdateRateBegin ==
    \E id \in 1..MaxRates : RateSelect("updateRate", id)

DeleteRateBegin ==
    \E id \in 1..MaxRates : RateSelect("deleteRate", id)

----------------------------------------------------------------------------
(* Transactions statement by statement.  A statement with FOR UPDATE, an UPDATE and an
   INSERT take row locks that the transaction holds until it commits; a locking statement
   waits while a row in the range it reads is locked by another transaction, so it never
   reads a row another transaction has written and not committed.  The writes of a
   transaction are therefore applied to the tables in place.  A SELECT ... FOR UPDATE that
   finds no row locks nothing. *)

TxIds == {1, 2}

IdleTx ==
    [pc |-> "idle", op |-> "none", client_id |-> NULL, invoice_month |-> <<0, 0>>,
     invoice_date |-> NULL, regenerate_draft |-> FALSE, id |-> NULL, existing |-> NULL,
     fx_rate_id |-> NULL, ids |-> <<>>, locks |-> {}, response |-> Response("NONE")]

LockedByOther(t, rows) ==
    \E u \in TxIds \ {t} : txs[u].locks \cap rows # {}

InvoiceRows(clientId, invoiceMonth) ==
    {<<"invoices", i>> : i \in {j \in 1..Len(invoices) :
                                  /\ invoices[j].client_id = clientId
                                  /\ invoices[j].invoice_month = invoiceMonth}}

EventRowsOfInvoice(invoiceId) ==
    {<<"events", e>> : e \in {j \in 1..Len(events) : events[j].invoice_id = invoiceId}}

EventRowsInRange(clientId, range) ==
    {<<"events", e>> : e \in {j \in 1..Len(events) :
                                /\ events[j].client_id = clientId
                                /\ events[j].event_date >= range.from
                                /\ events[j].event_date < range.to}}

RowsOf(table, ids) == {<<table, ids[k]>> : k \in 1..Len(ids)}

Step(t, next) ==
    /\ txs' = [txs EXCEPT ![t] = next]
    /\ UNCHANGED <<rateReq, inbound>>

(* generate, first statement: the existing invoice of the client-month FOR UPDATE, and the
   branches that answer at once *)
GenerateLookup(t, clientId, invoiceMonth, invoiceDate, regenerateDraft) ==
    /\ txs[t].pc = "idle"
    /\ ~LockedByOther(t, InvoiceRows(clientId, invoiceMonth))
    /\ LET existing == ExistingInvoice(invoices, clientId, invoiceMonth)
           branch == ExistingBranch(existing, regenerateDraft)
           begun == [IdleTx EXCEPT !.op = "generate", !.client_id = clientId,
                                   !.invoice_month = invoiceMonth,
                                   !.invoice_date = invoiceDate,
                                   !.regenerate_draft = regenerateDraft,
                                   !.existing = existing,
                                   !.locks = IF existing = 0 THEN {}
                                             ELSE {<<"invoices", existing>>}]
       IN CASE branch = "blocked" ->
                 Step(t, [begun EXCEPT !.pc = "commit",
                                       !.response = Response("INVOICE_ALREADY_ISSUED")])
            [] branch = "reuse" ->
                 Step(t, [begun EXCEPT !.pc = "commit",
                                       !.response = [Response("OK") EXCEPT
                                                       !.invoice_id = existing,
                                                       !.reused = TRUE]])
            [] branch = "regenerate" -> Step(t, [begun EXCEPT !.pc = "revert"])
            [] OTHER -> Step(t, [begun EXCEPT !.pc = "rate"])
    /\ UNCHANGED db

(* regenerateDraft: the events of the draft back to PENDING, its items and the draft itself
   soft-deleted *)
GenerateRevert(t) ==
    /\ txs[t].pc = "revert"
    /\ ~LockedByOther(t, EventRowsOfInvoice(txs[t].existing))
    /\ events' = RevertEventsOfInvoice(events, txs[t].existing)
    /\ items' = SoftDeleteItems(items, txs[t].existing)
    /\ invoices' = SoftDeleteInvoice(invoices, txs[t].existing)
    /\ UNCHANGED <<rates, sequences>>
    /\ Step(t, [txs[t] EXCEPT !.pc = "rate",
                              !.locks = @ \cup EventRowsOfInvoice(txs[t].existing)])

(* the applicable rate FOR UPDATE, then UPDATE exchange_rates SET locked = 1 *)
GenerateRate(t) ==
    /\ txs[t].pc = "rate"
    /\ LET fxRateId == ApplicableRate(rates, txs[t].invoice_date)
       IN IF fxRateId = 0
          THEN /\ Step(t, [txs[t] EXCEPT !.pc = "commit",
                                         !.response = Response("FX_NOT_FOUND")])
               /\ UNCHANGED db
          ELSE /\ ~LockedByOther(t, {<<"rates", fxRateId>>})
               /\ rates' = [rates EXCEPT ![fxRateId].locked = TRUE]
               /\ UNCHANGED <<invoices, items, events, sequences>>
               /\ Step(t, [txs[t] EXCEPT !.pc = "events", !.fx_rate_id = fxRateId,
                                         !.locks = @ \cup {<<"rates", fxRateId>>}])

(* the pending events of the month FOR UPDATE *)
GenerateEvents(t) ==
    /\ txs[t].pc = "events"
    /\ LET range == monthRange(txs[t].invoice_month)
           ids == PendingEvents(events, txs[t].client_id, range)
       IN /\ ~LockedByOther(t, EventRowsInRange(txs[t].client_id, range))
          /\ IF NoPendingEvents(ids)
             THEN Step(t, [txs[t] EXCEPT !.pc = "commit",
                                         !.response = Response("NO_PENDING_EVENTS")])
             ELSE Step(t, [txs[t] EXCEPT !.pc = "sequence", !.ids = ids,
                                         !.locks = @ \cup RowsOf("events", ids)])
    /\ UNCHANGED db

(* resolveInvoiceSequence and the rest of the callback: invoice, items, totals, events *)
GenerateSequence(t) ==
    /\ txs[t].pc = "sequence"
    /\ txs[t].op = "generate"
    /\ Len(invoices) < MaxInvoices
    /\ LET key == <<txs[t].client_id, yyyymmOf(txs[t].invoice_month)>>
           done == GenerateInsert(txs[t].client_id, txs[t].invoice_month,
                                  txs[t].invoice_date, rates[txs[t].fx_rate_id].rate,
                                  txs[t].ids, invoices, items, events, rates, sequences)
       IN /\ ~LockedByOther(t, {<<"sequences", key>>})
          /\ invoices' = done.tables[1]
          /\ items' = done.tables[2]
          /\ events' = done.tables[3]
          /\ sequences' = done.tables[5]
          /\ UNCHANGED rates
          /\ Step(t, [txs[t] EXCEPT !.pc = "commit", !.response = done.response,
                                    !.locks = @ \cup {<<"sequences", key>>,
                                                      <<"invoices", done.response.invoice_id>>}])

(* duplicate-admin, first statement: the source invoice FOR UPDATE and the two checks *)
DuplicateLookup(t, invoiceId) ==
    /\ txs[t].pc = "idle"
    /\ ~LockedByOther(t, {<<"invoices", invoiceId>>})
    /\ LET begun == [IdleTx EXCEPT !.op = "duplicate", !.id = invoiceId]
           code == DuplicateAdminTx(invoiceId).response.code
       IN IF code = "OK"
          THEN Step(t, [begun EXCEPT !.pc = "sequence",
                                     !.client_id = invoices[invoiceId].client_id,
                                     !.invoice_month = invoices[invoiceId].invoice_month,
                                     !.locks = {<<"invoices", invoiceId>>}])
          ELSE Step(t, [begun EXCEPT !.pc = "commit", !.response = Response(code),
                                     !.locks = IF InvoiceFound(invoiceId)
                                               THEN {<<"invoices", invoiceId>>} ELSE {}])
    /\ UNCHANGED db

(* resolveInvoiceSequence, the copy of the row and of its items *)
DuplicateSequence(t) ==
    /\ txs[t].pc = "sequence"
    /\ txs[t].op = "duplicate"
    /\ Len(invoices) < MaxInvoices
    /\ LET key == <<txs[t].client_id, yyyymmOf(txs[t].invoice_month)>>
           done == DuplicateAdminTx(txs[t].id)
       IN /\ ~LockedByOther(t, {<<"sequences", key>>})
          /\ invoices' = done.tables[1]
          /\ items' = done.tables[2]
          /\ sequences' = done.tables[5]
          /\ UNCHANGED <<events, rates>>
          /\ Step(t, [txs[t] EXCEPT !.pc = "commit", !.response = done.response,
                                    !.locks = @ \cup {<<"sequences", key>>,
                                                      <<"invoices", done.response.invoice_id>>}])

(* mutant: the row is read without FOR UPDATE *)
IssueLookup_Unlocked(t, invoiceId) ==
    /\ txs[t].pc = "idle"
    /\ LET begun == [IdleTx EXCEPT !.op = "issue", !.id = invoiceId]
           code == IssueTx(invoiceId).response.code
       IN IF code = "OK"
          THEN Step(t, [begun EXCEPT !.pc = "update"])
          ELSE Step(t, [begun EXCEPT !.pc = "commit", !.response = Response(code)])
    /\ UNCHANGED db

(* issue, first statement: the invoice FOR UPDATE and the two checks *)
IssueLookup(t, invoiceId) ==
    /\ txs[t].pc = "idle"
    /\ ~LockedByOther(t, {<<"invoices", invoiceId>>})
    /\ LET begun == [IdleTx EXCEPT !.op = "issue", !.id = invoiceId]
           code == IssueTx(invoiceId).response.code
       IN IF code = "OK"
          THEN Step(t, [begun EXCEPT !.pc = "update", !.locks = {<<"invoices", invoiceId>>}])
          ELSE Step(t, [begun EXCEPT !.pc = "commit", !.response = Response(code),
                                     !.locks = IF InvoiceFound(invoiceId)
                                               THEN {<<"invoices", invoiceId>>} ELSE {}])
    /\ UNCHANGED db

(* UPDATE invoices SET status = 'issued' WHERE id = ? *)
IssueUpdate(t) ==
    /\ txs[t].pc = "update"
    /\ txs[t].op = "issue"
    /\ invoices' = [invoices EXCEPT ![txs[t].id].status = "issued"]
    /\ UNCHANGED <<items, events, rates, sequences>>
    /\ Step(t, [txs[t] EXCEPT !.pc = "commit",
                              !.response = [Response("OK") EXCEPT !.invoice_id = txs[t].id]])

(* mark-pending, the join FOR UPDATE: billing_events drives the join, so that the statement
   locks each event row of the ids and then the invoice row joined to it, row after row.
   ids holds the event rows found, id the position reached, existing the joined invoice *)
MarkPendingLookup(t, ids) ==
    /\ txs[t].pc = "idle"
    /\ LET rows == SortedIds({e \in ids : e \in 1..Len(events)})
           begun == [IdleTx EXCEPT !.op = "mark-pending", !.ids = rows]
       IN IF rows = <<>>
          THEN Step(t, [begun EXCEPT !.pc = "commit",
                                     !.response = MarkEventsPendingTx(ids).response])
          ELSE Step(t, [begun EXCEPT !.pc = "join-event", !.id = 1])
    /\ UNCHANGED db

(* the position after the row at hand: the next row, or the end of the join *)
JoinNext(tx) ==
    IF tx.id < Len(tx.ids)
    THEN [tx EXCEPT !.pc = "join-event", !.id = tx.id + 1, !.existing = NULL]
    ELSE [tx EXCEPT !.pc = "update", !.existing = NULL]

MarkPendingJoinEvent(t) ==
    /\ txs[t].pc = "join-event"
    /\ LET e == txs[t].ids[txs[t].id]
           locked == [txs[t] EXCEPT !.locks = @ \cup {<<"events", e>>}]
       IN /\ ~LockedByOther(t, {<<"events", e>>})
          /\ IF JoinedInvoiceStatus(events[e]) # "null"
             THEN Step(t, [locked EXCEPT !.pc = "join-invoice",
                                         !.existing = events[e].invoice_id])
             ELSE Step(t, JoinNext(locked))
    /\ UNCHANGED db

MarkPendingJoinInvoice(t) ==
    /\ txs[t].pc = "join-invoice"
    /\ ~LockedByOther(t, {<<"invoices", txs[t].existing>>})
    /\ Step(t, JoinNext([txs[t] EXCEPT !.locks = @ \cup {<<"invoices", txs[t].existing>>}]))
    /\ UNCHANGED db

(* the EVENTS_LOCKED check on the rows read, and the UPDATE of the events *)
MarkPendingUpdate(t) ==
    /\ txs[t].pc = "update"
    /\ txs[t].op = "mark-pending"
    /\ LET done == MarkEventsPendingTx({txs[t].ids[k] : k \in 1..Len(txs[t].ids)})
       IN /\ events' = done.tables[3]
          /\ UNCHANGED <<invoices, items, rates, sequences>>
          /\ Step(t, [txs[t] EXCEPT !.pc = "commit", !.response = done.response])

(* COMMIT: the answer is sent and the locks are released *)
TxCommit(t) ==
    /\ txs[t].pc = "commit"
    /\ Step(t, IdleTx)
    /\ UNCHANGED db

(* issue as one step, on an invoice no transaction in flight has locked *)
IssueUnlocked ==
    \E invoiceId \in InvoiceIds :
        /\ ~LockedByOther(0, {<<"invoices", invoiceId>>})
        /\ Commit(IssueTx(invoiceId), FALSE)

----------------------------------------------------------------------------
(* /inbound-orders: POST /, PUT /:id, DELETE /:id and the audit log.  Every statement runs on
   the pool, autocommitted; a request is between two of its statements in reqs *)

MaxOrders == 1
MaxLogs == 4
ReqIds == {1, 2}

(* the status values of the request bodies, out of the six of the schema *)
InboundStatuses == {"draft", "submitted", "arrived"}

(* a NULL from_status or to_status *)
NullStatus == "null"

IdleReq ==
    [pc |-> "idle", op |-> "none", id |-> NULL, status |-> "none", previousStatus |-> "none"]

deriveInboundAction(fromStatus, toStatus) ==
    IF fromStatus = NullStatus THEN "create"
    ELSE IF toStatus = "submitted" /\ fromStatus # "submitted" THEN "submit"
    ELSE IF toStatus = "arrived" /\ fromStatus # "arrived" THEN "arrive"
    ELSE IF toStatus = "received" /\ fromStatus # "received" THEN "receive"
    ELSE IF toStatus = "cancelled" /\ fromStatus # "cancelled" THEN "cancel"
    ELSE IF fromStatus # toStatus THEN "status_change"
    ELSE "update"

(* INSERT INTO inbound_order_logs: the id is the position in logs *)
appendInboundOrderLog(r, action, fromStatus, toStatus) ==
    /\ Len(logs) < MaxLogs
    /\ logs' = Append(logs, [inbound_order_id |-> reqs[r].id, action |-> action,
                             from_status |-> fromStatus, to_status |-> toStatus])
    /\ reqs' = [reqs EXCEPT ![r] = IdleReq]
    /\ UNCHANGED <<orders, db, rateReq, txs>>

(* SELECT id, status FROM inbound_orders WHERE id = ? AND deleted_at IS NULL; no row answers
   404 and the request is over *)
OrderSelect(r, op, id, status) ==
    /\ reqs[r].pc = "idle"
    /\ IF id \in 1..Len(orders) /\ ~orders[id].deleted
       THEN reqs' = [reqs EXCEPT ![r] = [pc |-> "write", op |-> op, id |-> id, status |-> status,
                                         previousStatus |-> orders[id].status]]
       ELSE UNCHANGED reqs
    /\ UNCHANGED <<orders, logs, db, rateReq, txs>>

(* POST /: the INSERT of the order *)
PostOrderInsert(r, status) ==
    /\ reqs[r].pc = "idle"
    /\ Len(orders) < MaxOrders
    /\ orders' = Append(orders, [status |-> status, deleted |-> FALSE])
    /\ reqs' = [reqs EXCEPT ![r] = [IdleReq EXCEPT !.pc = "log", !.op = "create",
                                                   !.id = Len(orders) + 1, !.status = status]]
    /\ UNCHANGED <<logs, db, rateReq, txs>>

(* POST /: the log entry, action create, toStatus the status of the body *)
PostOrderLog(r) ==
    /\ reqs[r].pc = "log"
    /\ reqs[r].op = "create"
    /\ appendInboundOrderLog(r, "create", NullStatus, reqs[r].status)

(* PUT /:id: UPDATE inbound_orders SET ..., status = ? WHERE id = ? AND deleted_at IS NULL *)
PutOrderUpdate(r) ==
    /\ reqs[r].pc = "write"
    /\ reqs[r].op = "update"
    /\ orders' = IF orders[reqs[r].id].deleted THEN orders
                 ELSE [orders EXCEPT ![reqs[r].id].status = reqs[r].status]
    /\ reqs' = [reqs EXCEPT ![r].pc = "log"]
    /\ UNCHANGED <<logs, db, rateReq, txs>>

(* PUT /:id: the log entry, from the status read by the first statement to the status of
   the body *)
PutOrderLog(r) ==
    /\ reqs[r].pc = "log"
    /\ reqs[r].op = "update"
    /\ appendInboundOrderLog(r, deriveInboundAction(reqs[r].previousStatus, reqs[r].status),
                             reqs[r].previousStatus, reqs[r].status)

(* DELETE /:id: UPDATE inbound_orders SET deleted_at = NOW() WHERE id = ? AND deleted_at IS
   NULL; affectedRows 0 answers 404 *)
DeleteOrderUpdate(r) ==
    /\ reqs[r].pc = "write"
    /\ reqs[r].op = "delete"
    /\ IF orders[reqs[r].id].deleted
       THEN /\ reqs' = [reqs EXCEPT ![r] = IdleReq]
            /\ UNCHANGED orders
       ELSE /\ orders' = [orders EXCEPT ![reqs[r].id].deleted = TRUE]
            /\ reqs' = [reqs EXCEPT ![r].pc = "log"]
    /\ UNCHANGED <<logs, db, rateReq, txs>>

DeleteOrderLog(r) ==
    /\ reqs[r].pc = "log"
    /\ reqs[r].op = "delete"
    /\ appendInboundOrderLog(r, "delete", reqs[r].previousStatus, NullStatus)

----------------------------------------------------------------------------
(* The system *)

Init ==
    /\ invoices = <<>>
    /\ items = <<>>
    /\ events = <<>>
    /\ rates = <<>>
    /\ sequences = [k \in SeqKeys |-> 0]
    /\ rateReq = Idle
    /\ txs = [t \in TxIds |-> IdleTx]
    /\ orders = <<>>
    /\ logs = <<>>
    /\ reqs = [r \in ReqIds |-> IdleReq]

(* one client-month; the exchange rate is entered and then left alone *)
Next ==
    \/ CreateEvent
    \/ CreateRate
    \/ Generate
    \/ Issue
    \/ MarkPaid
    \/ DuplicateAdmin
    \/ MarkEventsPending
    \/ TxFails

Spec == Init /\ [][Next]_vars

(* exchange-rate maintenance concurrent with generation *)
CreateAnyRate ==
    \E payload \in RatePayloads : PostExchangeRate(payload)

NextRates ==
    \/ CreateEvent
    \/ CreateAnyRate
    \/ UpdateRateBegin
    \/ DeleteRateBegin
    \/ RateUsage
    \/ RateWrite
    \/ Generate

SpecRates == Init /\ [][NextRates]_vars

(* two transactions in flight on one client-month: generate and duplicate-admin, statement
   by statement *)
GenerateBegin ==
    \E t \in TxIds, invoiceMonth \in InvoiceMonths, regenerateDraft \in BOOLEAN :
        GenerateLookup(t, 1, invoiceMonth, 20261231, regenerateDraft)

GenerateStep ==
    \E t \in TxIds :
        GenerateRevert(t) \/ GenerateRate(t) \/ GenerateEvents(t) \/ GenerateSequence(t)

DuplicateBegin ==
    \E t \in TxIds, invoiceId \in InvoiceIds : DuplicateLookup(t, invoiceId)

DuplicateStep ==
    \E t \in TxIds : DuplicateSequence(t)

TxEnd ==
    \E t \in TxIds : TxCommit(t)

NextLocks ==
    \/ CreateEvent
    \/ CreateRate
    \/ GenerateBegin
    \/ GenerateStep
    \/ DuplicateBegin
    \/ DuplicateStep
    \/ TxEnd
    \/ IssueUnlocked

SpecLocks == Init /\ [][NextLocks]_vars

(* two transactions in flight on one client-month: generate and issue, statement by
   statement *)
IssueBegin ==
    \E t \in TxIds, invoiceId \in InvoiceIds : IssueLookup(t, invoiceId)

IssueStep ==
    \E t \in TxIds : IssueUpdate(t)

NextIssue ==
    \/ CreateEvent
    \/ CreateRate
    \/ GenerateBegin
    \/ GenerateStep
    \/ IssueBegin
    \/ IssueStep
    \/ TxEnd

SpecIssue == Init /\ [][NextIssue]_vars

(* two transactions in flight on one client-month: generate and mark-pending, statement by
   statement and, within the join, lock by lock *)
MarkPendingBegin ==
    \E t \in TxIds, ids \in EventIdSets : MarkPendingLookup(t, ids)

MarkPendingStep ==
    \E t \in TxIds :
        MarkPendingJoinEvent(t) \/ MarkPendingJoinInvoice(t) \/ MarkPendingUpdate(t)

NextMarkPending ==
    \/ CreateEvent
    \/ CreateRate
    \/ GenerateBegin
    \/ GenerateStep
    \/ MarkPendingBegin
    \/ MarkPendingStep
    \/ TxEnd

SpecMarkPending == Init /\ [][NextMarkPending]_vars

(* two transactions in flight, generate for either client *)
CreateEventOfAnyClient ==
    \E payload \in {p \in EventPayloads : p.event_date \in {20261201, 20261203}} :
        PostEvent(payload)

GenerateBeginAnyClient ==
    \E t \in TxIds, clientId \in Clients, invoiceMonth \in InvoiceMonths,
       regenerateDraft \in BOOLEAN :
        GenerateLookup(t, clientId, invoiceMonth, 20261231, regenerateDraft)

NextClients ==
    \/ CreateEventOfAnyClient
    \/ CreateRate
    \/ GenerateBeginAnyClient
    \/ GenerateStep
    \/ TxEnd

SpecClients == Init /\ [][NextClients]_vars

(* one client-month with events of several service codes *)
CreateEventOfAnyCode ==
    \E payload \in {p \in EventPayloads : /\ p.client_id = 1
                                          /\ p.event_date >= 20261201
                                          /\ p.event_date < 20270101} :
        PostEvent(payload)

CreateRateOfAnyValue ==
    \E payload \in AmountRatePayloads : PostExchangeRate(payload)

NextItems ==
    \/ CreateEventOfAnyCode
    \/ CreateRateOfAnyValue
    \/ Generate

SpecItems == Init /\ [][NextItems]_vars

(* one client-month: generation, issue and mark-pending; every invoice is one generate
   created *)
NextPending ==
    \/ CreateEventOfAnyCode
    \/ CreateRate
    \/ Generate
    \/ Issue
    \/ MarkEventsPending

SpecPending == Init /\ [][NextPending]_vars

(* one client-month whose events carry distinct service codes, so that an item names the
   event it aggregates; every lifecycle handler *)
CreateEventOfDistinctCode ==
    \E payload \in {p \in EventPayloads : /\ p.client_id = 1
                                          /\ p.event_date \in {20261203, 20261231}} :
        /\ \A e \in 1..Len(events) : events[e].service_code # payload.service_code
        /\ PostEvent(payload)

NextBilled ==
    \/ CreateEventOfDistinctCode
    \/ CreateRate
    \/ Generate
    \/ Issue
    \/ MarkPaid
    \/ DuplicateAdmin
    \/ MarkEventsPending

SpecBilled == Init /\ [][NextBilled]_vars

(* inbound orders: two requests in flight, statement by statement *)
CreateOrder ==
    \E r \in ReqIds, status \in InboundStatuses : PostOrderInsert(r, status)

UpdateOrderBegin ==
    \E r \in ReqIds, id \in 1..MaxOrders, status \in InboundStatuses :
        OrderSelect(r, "update", id, status)

DeleteOrderBegin ==
    \E r \in ReqIds, id \in 1..MaxOrders : OrderSelect(r, "delete", id, "none")

OrderStep ==
    \E r \in ReqIds :
        \/ PostOrderLog(r)
        \/ PutOrderUpdate(r)
        \/ PutOrderLog(r)
        \/ DeleteOrderUpdate(r)
        \/ DeleteOrderLog(r)

NextInbound ==
    \/ CreateOrder
    \/ UpdateOrderBegin
    \/ DeleteOrderBegin
    \/ OrderStep

SpecInbound == Init /\ [][NextInbound]_vars

(* events of either client, in and out of the invoice month; generate for either client *)
CreateEventOfAnyDate ==
    \E payload \in {p \in EventPayloads : p.service_code # "VAT_7" /\ p.qty > 0} :
        PostEvent(payload)

GenerateAnyClient ==
    \E clientId \in Clients, invoiceMonth \in InvoiceMonths, invoiceDate \in InvoiceDates,
       regenerateDraft \in BOOLEAN :
        Commit(GenerateTx(clientId, invoiceMonth, invoiceDate, regenerateDraft), FALSE)

NextEvents ==
    \/ CreateEventOfAnyDate
    \/ CreateRate
    \/ GenerateAnyClient

SpecEvents == Init /\ [][NextEvents]_vars

(* the handlers that write billing events, for either client, with issue and
   duplicate-admin for the invoices they meet *)
NextShapes ==
    \/ CreateEventOfAnyClient
    \/ CreateRate
    \/ GenerateAnyClient
    \/ Issue
    \/ DuplicateAdmin
    \/ MarkEventsPending

SpecShapes == Init /\ [][NextShapes]_vars

InitRows ==
    /\ invoices = <<>>
    /\ items = <<>>
    /\ events \in {<<row>> : row \in StoredRows}
    /\ rates = <<>>
    /\ sequences = [k \in SeqKeys |-> 0]
    /\ rateReq = Idle
    /\ txs = [t \in TxIds |-> IdleTx]
    /\ orders = <<>>
    /\ logs = <<>>
    /\ reqs = [r \in ReqIds |-> IdleReq]

CreateEventOfAnyAmount ==
    \E payload \in AmountPayloads : PostEvent(payload)

NextAmounts ==
    \/ CreateEventOfAnyAmount
    \/ CreateRate
    \/ Generate

SpecAmounts == InitRows /\ [][NextAmounts]_vars

----------------------------------------------------------------------------
(* Vocabulary of the properties.  A property of one handler is stated over every state
   the system reaches and every request the handler can get there: what the handler
   answers and the tables it commits. *)

Rank(status) == CASE status = "draft" -> 0 [] status = "issued" -> 1 [] status = "paid" -> 2

Finalized(status) == status \in {"issued", "paid"}

(* the non-deleted invoices of a client-month *)
LiveInvoices(invs, clientId, invoiceMonth) ==
    {i \in 1..Len(invs) : /\ invs[i].client_id = clientId
                          /\ invs[i].invoice_month = invoiceMonth
                          /\ ~invs[i].deleted}

LiveCount(invs, clientId, invoiceMonth) ==
    Cardinality(LiveInvoices(invs, clientId, invoiceMonth))

(* the most recently inserted of them, 0 when there is none *)
LatestLive(invs, clientId, invoiceMonth) ==
    LET S == LiveInvoices(invs, clientId, invoiceMonth)
    IN IF S = {} THEN 0 ELSE CHOOSE i \in S : \A j \in S : j <= i

(* the non-deleted item rows of an invoice *)
LiveItems(its, invoiceId) ==
    {k \in 1..Len(its) : its[k].invoice_id = invoiceId /\ ~its[k].deleted}

(* what a generate request commits and answers *)
Generated(clientId, invoiceMonth, invoiceDate, regenerateDraft) ==
    withTransaction(GenerateTx(clientId, invoiceMonth, invoiceDate, regenerateDraft), FALSE)

DomainErrors == {"INVOICE_ALREADY_ISSUED", "FX_NOT_FOUND", "NO_PENDING_EVENTS"}

----------------------------------------------------------------------------
(* C1 as stated: in every state there is at most one non-deleted invoice for each
   (client_id, invoice_month). *)
C1_AtMostOneLiveInvoice ==
    \A c \in Clients, m \in InvoiceMonths : LiveCount(invoices, c, m) <= 1

(* C1 amended: generate never leaves a client-month with more non-deleted invoices than it
   had, except the first one; issue, markPaid and markEventsPending leave the number as it
   is; duplicateForAdmin adds at most one. *)
C1_OnlyDuplicateAddsSecond ==
    \A c \in Clients, m \in InvoiceMonths :
        LET before == LiveCount(invoices, c, m)
            After(tx) == LiveCount(withTransaction(tx, FALSE).tables[1], c, m)
        IN /\ \A gc \in Clients, gm \in InvoiceMonths, d \in InvoiceDates, r \in BOOLEAN :
                 After(GenerateTx(gc, gm, d, r)) <= (IF before = 0 THEN 1 ELSE before)
           /\ \A id \in InvoiceIds :
                 /\ After(IssueTx(id)) = before
                 /\ After(MarkPaidTx(id)) = before
                 /\ After(DuplicateAdminTx(id)) <= before + 1
           /\ \A ids \in EventIdSets : After(MarkEventsPendingTx(ids)) = before

(* a client-month holds two non-deleted invoices, the later of them made by a regeneration
   that soft-deleted the draft before it *)
C1_Witness ==
    \E c \in Clients, m \in InvoiceMonths :
        /\ LiveCount(invoices, c, m) = 2
        /\ \E i \in 1..Len(invoices) :
              /\ invoices[i].deleted
              /\ i < LatestLive(invoices, c, m)
              /\ \E j \in LiveInvoices(invoices, c, m) : j < i

(* C2 as stated: a generate call that fails with AlreadyFinalized, FxNotFound or
   NoPendingEvents leaves every table as it was. *)
C2_FailedGenerateChangesNothing ==
    \A c \in Clients, m \in InvoiceMonths, d \in InvoiceDates, r \in BOOLEAN :
        LET done == Generated(c, m, d, r)
        IN done.response.code \in DomainErrors => done.tables = db

(* C3: an invoice that is issued or paid keeps its row except for the status change
   issued -> paid, keeps its set of non-deleted items, and is never soft-deleted. *)
C3_FinalizedInvoiceFrozen ==
    [][\A i \in 1..Len(invoices) :
         Finalized(invoices[i].status) =>
            /\ i \in 1..Len(invoices')
            /\ invoices'[i] = [invoices[i] EXCEPT !.status = invoices'[i].status]
            /\ \/ invoices'[i].status = invoices[i].status
               \/ invoices[i].status = "issued" /\ invoices'[i].status = "paid"
            /\ ~invoices'[i].deleted
            /\ LiveItems(items', i) = LiveItems(items, i)
            /\ \A k \in LiveItems(items, i) : items'[k] = items[k]]_vars

(* an issued or paid invoice with items, a draft made after it that a regeneration
   soft-deleted, and the draft the regeneration made *)
C3_Witness ==
    \E i, j, k \in 1..Len(invoices) :
        /\ i < j /\ j < k
        /\ Finalized(invoices[i].status) /\ LiveItems(items, i) # {}
        /\ invoices[j].deleted
        /\ ~invoices[k].deleted /\ invoices[k].status = "draft"

(* C4: the status rank of an invoice never decreases; a status changes only from draft to
   issued, by a step that is issue of that invoice, and from issued to paid, by a step that
   is markPaid of that invoice. *)
C4_StatusMonotonic ==
    [][\A i \in 1..Len(invoices) :
         /\ i \in 1..Len(invoices')
         /\ Rank(invoices'[i].status) >= Rank(invoices[i].status)
         /\ invoices'[i].status # invoices[i].status =>
               \/ /\ invoices[i].status = "draft" /\ invoices'[i].status = "issued"
                  /\ db' = IssueTx(i).tables
               \/ /\ invoices[i].status = "issued" /\ invoices'[i].status = "paid"
                  /\ db' = MarkPaidTx(i).tables]_vars

(* a paid invoice, on which issue and markPaid are refused *)
C4_Witness ==
    \E i \in 1..Len(invoices) :
        /\ invoices[i].status = "paid"
        /\ IssueTx(i).response.code = "INVALID_STATUS"
        /\ MarkPaidTx(i).response.code = "INVALID_STATUS"

(* C5 as stated: when a non-deleted draft exists for (client, month), generate with
   regenerateDraft=false answers reused=true with the id of a non-deleted draft of that
   client-month and changes no table. *)
C5_AnyDraftReused ==
    \A c \in Clients, m \in InvoiceMonths, d \in InvoiceDates :
        (\E i \in LiveInvoices(invoices, c, m) : invoices[i].status = "draft")
        => LET done == Generated(c, m, d, FALSE)
           IN /\ done.response.code = "OK" /\ done.response.reused
              /\ done.response.invoice_id \in LiveInvoices(invoices, c, m)
              /\ invoices[done.response.invoice_id].status = "draft"
              /\ done.tables = db

(* C5 amended: when the most recent non-deleted invoice of (client, month) is a draft,
   generate with regenerateDraft=false answers reused=true with that invoice's id and
   changes no table. *)
C5_LatestDraftReused ==
    \A c \in Clients, m \in InvoiceMonths, d \in InvoiceDates :
        LET latest == LatestLive(invoices, c, m)
        IN (latest # 0 /\ invoices[latest].status = "draft")
           => LET done == Generated(c, m, d, FALSE)
              IN /\ done.response.code = "OK" /\ done.response.reused
                 /\ done.response.invoice_id = latest
                 /\ done.tables = db

(* the draft generate reuses is the latest of a client-month that also holds an issued or
   paid invoice, and an event is pending that a new invoice would take *)
C5_Witness ==
    \E c \in Clients, m \in InvoiceMonths, d \in InvoiceDates :
        LET latest == LatestLive(invoices, c, m)
        IN /\ latest # 0 /\ invoices[latest].status = "draft"
           /\ \E i \in LiveInvoices(invoices, c, m) : Finalized(invoices[i].status)
           /\ PendingEvents(events, c, monthRange(m)) # <<>>
           /\ Generated(c, m, d, FALSE).response.reused

(* C6 as stated: whenever a non-deleted issued or paid invoice exists for (client, month),
   generate fails with AlreadyFinalized whatever regenerateDraft is, and creates no
   invoice. *)
C6_AnyFinalizedBlocks ==
    \A c \in Clients, m \in InvoiceMonths, d \in InvoiceDates, r \in BOOLEAN :
        (\E i \in LiveInvoices(invoices, c, m) : Finalized(invoices[i].status))
        => LET done == Generated(c, m, d, r)
           IN /\ done.response.code = "INVOICE_ALREADY_ISSUED"
              /\ Len(done.tables[1]) = Len(invoices)

(* C6 amended: whenever the most recent non-deleted invoice of (client, month) is issued or
   paid, generate fails with AlreadyFinalized whatever regenerateDraft is, and writes
   nothing. *)
C6_LatestFinalizedBlocks ==
    \A c \in Clients, m \in InvoiceMonths, d \in InvoiceDates, r \in BOOLEAN :
        LET latest == LatestLive(invoices, c, m)
        IN (latest # 0 /\ Finalized(invoices[latest].status))
           => LET done == Generated(c, m, d, r)
              IN /\ done.response.code = "INVOICE_ALREADY_ISSUED"
                 /\ done.tables = db

(* the latest invoice of a client-month is paid, an event of the month is pending and a
   rate applies, and generate with regenerateDraft is refused *)
C6_Witness ==
    \E c \in Clients, m \in InvoiceMonths, d \in InvoiceDates :
        LET latest == LatestLive(invoices, c, m)
        IN /\ latest # 0 /\ invoices[latest].status = "paid"
           /\ PendingEvents(events, c, monthRange(m)) # <<>>
           /\ ApplicableRate(rates, d) # 0
           /\ Generated(c, m, d, TRUE).response.code = "INVOICE_ALREADY_ISSUED"

(* the event is linked to an invoice that is issued or paid *)
LinkedToFinalized(e) ==
    /\ events[e].invoice_id \in 1..Len(invoices)
    /\ Finalized(invoices[events[e].invoice_id].status)

(* the event is linked to a non-deleted draft *)
LinkedToDraft(e) ==
    /\ events[e].invoice_id \in 1..Len(invoices)
    /\ invoices[events[e].invoice_id].status = "draft"
    /\ ~invoices[events[e].invoice_id].deleted

C8_LockedEventsRefused ==
    \A ids \in EventIdSets :
        (\E e \in ids : e \in 1..Len(events) /\ LinkedToFinalized(e))
        => LET done == withTransaction(MarkEventsPendingTx(ids), FALSE)
           IN /\ done.response.code = "EVENTS_LOCKED"
              /\ done.tables = db

(* a request that targets an event linked to an issued or paid invoice and an event linked
   to a draft is refused *)
C8_Witness ==
    \E e1, e2 \in 1..Len(events) :
        /\ LinkedToFinalized(e1)
        /\ LinkedToDraft(e2)
        /\ MarkEventsPendingTx({e1, e2}).response.code = "EVENTS_LOCKED"

(* the PENDING events of the client dated in the invoice month *)
PendingInMonth(evs, clientId, invoiceMonth) ==
    {e \in 1..Len(evs) : /\ evs[e].client_id = clientId
                         /\ evs[e].status = "PENDING"
                         /\ evs[e].event_date \div 100 = invoiceMonth[1] * 100 + invoiceMonth[2]}

(* an active, non-deleted rate dated on or before the date *)
RateOnOrBefore(date) ==
    \E r \in 1..Len(rates) :
        ~rates[r].deleted /\ rates[r].status = "active" /\ rates[r].rate_date <= date

(* no invoice row, no item row, the sequence counters as they were *)
NothingCreated(tables) ==
    /\ Len(tables[1]) = Len(invoices)
    /\ Len(tables[2]) = Len(items)
    /\ tables[5] = sequences

(* C9 as stated: generate with zero PENDING events of the client in the invoice month fails
   with NoPendingEvents, creating no invoice row and no item row and leaving the sequence
   counter. *)
C9_ZeroPendingFails ==
    \A c \in Clients, m \in InvoiceMonths, d \in InvoiceDates, r \in BOOLEAN :
        PendingInMonth(events, c, m) = {}
        => LET done == Generated(c, m, d, r)
           IN done.response.code = "NO_PENDING_EVENTS" /\ NothingCreated(done.tables)

(* C9 amended: generate with zero PENDING events of the client in the invoice month fails
   with NoPendingEvents when the client-month has no non-deleted invoice and an active rate
   dated on or before invoiceDate exists; and whenever generate fails with NoPendingEvents
   no invoice row and no item row is created and the sequence counter is not advanced. *)
C9_ZeroPendingFailsAfterChecks ==
    \A c \in Clients, m \in InvoiceMonths, d \in InvoiceDates, r \in BOOLEAN :
        LET done == Generated(c, m, d, r)
        IN /\ (/\ PendingInMonth(events, c, m) = {}
               /\ LiveInvoices(invoices, c, m) = {}
               /\ RateOnOrBefore(d))
              => done.response.code = "NO_PENDING_EVENTS"
           /\ done.response.code = "NO_PENDING_EVENTS" => NothingCreated(done.tables)

(* a client-month without events and without invoice whose rate is locked: a generate
   failed on it with NoPendingEvents, and the next one does too *)
C9_Witness ==
    \E c \in Clients, m \in InvoiceMonths, d \in InvoiceDates :
        /\ PendingInMonth(events, c, m) = {}
        /\ LiveInvoices(invoices, c, m) = {}
        /\ Len(invoices) = 0
        /\ \E r \in 1..Len(rates) : rates[r].locked /\ rates[r].rate_date <= d
        /\ Generated(c, m, d, FALSE).response.code = "NO_PENDING_EVENTS"

(* the rate's value is captured in a non-deleted invoice *)
RateUsed(r) ==
    \E i \in 1..Len(invoices) :
        ~invoices[i].deleted /\ invoices[i].fx_rate_thbkrw = rates[r].rate

(* C10 as stated: a rate that is locked or whose value is captured in a non-deleted invoice
   is never modified, unlocked or deleted (generation may set its locked flag). *)
C10_LockedRateImmutable ==
    [][\A r \in 1..Len(rates) :
         (rates[r].locked \/ RateUsed(r))
         => \/ rates'[r] = rates[r]
            \/ rates'[r] = [rates[r] EXCEPT !.locked = TRUE]]_vars

----------------------------------------------------------------------------
(* C11 as stated: a rate whose locked flag is true keeps it true in every later state. *)
C11_LockNeverCleared ==
    [][\A r \in 1..Len(rates) : rates[r].locked => rates'[r].locked]_vars

(* the step leaves rate r locked and it was not locked, or did not exist, before *)
NewlyLocked(r) ==
    rates'[r].locked /\ (r > Len(rates) \/ ~rates[r].locked)

(* the step is a generate that selected rate r *)
LockedByGenerate(r) ==
    /\ r <= Len(rates)
    /\ \E c \in Clients, m \in InvoiceMonths, d \in InvoiceDates, rg \in BOOLEAN :
          /\ ApplicableRate(rates, d) = r
          /\ db' = GenerateTx(c, m, d, rg).tables

(* the row is what a create or update request with locked = 1 in its body writes *)
LockedByPayload(r) ==
    \E p \in RatePayloads :
        /\ p.locked
        /\ rates'[r] = [rate_date |-> p.rate_date, rate |-> p.rate, locked |-> TRUE,
                        status |-> p.status, deleted |-> FALSE]

(* C12 as stated: a rate's locked flag becomes true only by a generate that consumes that
   rate; no create or update request leaves a rate locked that was not locked. *)
C12_LockedOnlyByGenerate ==
    [][\A r \in 1..Len(rates') : NewlyLocked(r) => LockedByGenerate(r)]_vars

(* C12 amended: a rate's locked flag becomes true only by a generate that consumes that
   rate or by a create or update request whose body carries locked = 1. *)
C12_LockedByGenerateOrPayload ==
    [][\A r \in 1..Len(rates') :
         NewlyLocked(r) => (LockedByGenerate(r) \/ LockedByPayload(r))]_vars

(* one rate entered locked by hand, another locked by the generation of an invoice *)
C12_Witness ==
    \E r1, r2 \in 1..Len(rates) :
        /\ rates[r1].locked /\ rates[r1].status = "draft"
        /\ rates[r2].locked /\ rates[r2].status = "active"
        /\ \E i \in 1..Len(invoices) :
              ~invoices[i].deleted /\ invoices[i].fx_rate_thbkrw = rates[r2].rate

(* C13 as stated: a generate call that answers reused=true or fails with AlreadyFinalized,
   FxNotFound or NoPendingEvents leaves the locked flag of every rate as it was. *)
C13_LockOnlyOnSuccess ==
    \A c \in Clients, m \in InvoiceMonths, d \in InvoiceDates, rg \in BOOLEAN :
        LET done == Generated(c, m, d, rg)
        IN (done.response.reused \/ done.response.code \in DomainErrors)
           => \A r \in 1..Len(rates) : done.tables[4][r].locked = rates[r].locked

(* C14 as stated: the update or delete request whose check finds the rate neither locked
   nor used goes on to its write, and the write of a request leaves every rate as it is
   when the rate is locked or its value is captured in a non-deleted invoice. *)
C14_LockedOrUsedRejected ==
    [][/\ (/\ rateReq.pc = "usage" /\ rateReq' # rateReq
           /\ ~rates[rateReq.id].locked
           /\ ~RateUsed(rateReq.id))
          => rateReq'.pc = "write"
       /\ (/\ rateReq.pc = "write" /\ rateReq' # rateReq
           /\ (rates[rateReq.id].locked \/ RateUsed(rateReq.id)))
          => rates' = rates]_vars

(* the invoice dates the rate lookup is asked for: before, between and after the rates *)
RateLookupDates == {20261130, 20261210, 20261231}

(* the rate qualifies for the date: active, non-deleted, dated on or before it *)
Qualifies(r, date) ==
    ~rates[r].deleted /\ rates[r].status = "active" /\ rates[r].rate_date <= date

(* no qualifying rate is dated later, none of the same date has a higher id *)
BestRate(r, date) ==
    /\ Qualifies(r, date)
    /\ \A q \in 1..Len(rates) :
          Qualifies(q, date) =>
             \/ rates[q].rate_date < rates[r].rate_date
             \/ (rates[q].rate_date = rates[r].rate_date /\ q <= r)

(* the request gets as far as the rate lookup *)
ReachesRateLookup(done) ==
    ~done.response.reused /\ done.response.code # "INVOICE_ALREADY_ISSUED"

(* C15: a generate that gets to the rate lookup fails with FxNotFound when no rate is
   active, non-deleted and dated on or before invoiceDate; otherwise it locks the
   qualifying rate of the latest date (highest id among equal dates) and no other, and the
   invoice it creates carries that rate's value. *)
C15_ApplicableRateUsed ==
    \A c \in Clients, m \in InvoiceMonths, d \in RateLookupDates, rg \in BOOLEAN :
        LET done == Generated(c, m, d, rg)
        IN ReachesRateLookup(done) =>
              IF \A r \in 1..Len(rates) : ~Qualifies(r, d)
              THEN /\ done.response.code = "FX_NOT_FOUND"
                   /\ done.tables[4] = rates
              ELSE /\ done.response.code # "FX_NOT_FOUND"
                   /\ \A r \in 1..Len(rates) :
                         /\ BestRate(r, d) => done.tables[4][r].locked
                         /\ ~BestRate(r, d) => done.tables[4][r] = rates[r]
                         /\ (BestRate(r, d) /\ done.response.code = "OK")
                            => done.tables[1][done.response.invoice_id].fx_rate_thbkrw
                                  = rates[r].rate

(* two active rates of different dates and values and a pending event: generate dated
   between them takes the earlier rate, generate dated after both the later one *)
C15_Witness ==
    \E r1, r2 \in 1..Len(rates), c \in Clients, m \in InvoiceMonths :
        /\ rates[r1].rate_date < rates[r2].rate_date
        /\ rates[r1].rate # rates[r2].rate
        /\ Qualifies(r1, 20261210) /\ ~Qualifies(r2, 20261210) /\ Qualifies(r2, 20261231)
        /\ LET early == Generated(c, m, 20261210, FALSE)
               late == Generated(c, m, 20261231, FALSE)
           IN /\ early.response.code = "OK"
              /\ early.tables[1][early.response.invoice_id].fx_rate_thbkrw = rates[r1].rate
              /\ late.response.code = "OK"
              /\ late.tables[1][late.response.invoice_id].fx_rate_thbkrw = rates[r2].rate

----------------------------------------------------------------------------
(* C16: a generate call that found no invoice for its client-month and an applicable
   rate, and at its commit finds an invoice committed by a concurrent generate call,
   answers with the reuse of that invoice (reused = TRUE and its id) or with
   ALREADY_FINALIZED; it has created no invoice of its own. *)
CommittedByAnother(t) ==
    {i \in 1..Len(invoices) :
        /\ invoices[i].client_id = txs[t].client_id
        /\ invoices[i].invoice_month = txs[t].invoice_month
        /\ ~invoices[i].deleted
        /\ \A u \in TxIds : <<"invoices", i>> \notin txs[u].locks}

C16_SecondGenerateReuses ==
    \A t \in TxIds :
        (/\ txs[t].op = "generate"
         /\ txs[t].pc = "commit"
         /\ txs[t].existing = 0
         /\ txs[t].fx_rate_id # NULL
         /\ CommittedByAnother(t) # {})
        => \/ /\ txs[t].response.reused
              /\ txs[t].response.invoice_id \in CommittedByAnother(t)
           \/ txs[t].response.code = "INVOICE_ALREADY_ISSUED"

----------------------------------------------------------------------------
(* C17: for every (client, yyyymm) the sequence allocations of generate and of
   duplicate-admin return 1 first and then one more than the allocation before, each
   invoice inserted carries the value allocated for it, and the counter changes in no
   other way; this holds with two allocating transactions in flight, where two transactions
   are never both at their allocation for a client-month whose counter row does not
   exist yet. *)
KeyOf(invoice) == <<invoice.client_id, yyyymmOf(invoice.invoice_month)>>

InsertedFor(k) ==
    {i \in (Len(invoices) + 1)..Len(invoices') : KeyOf(invoices'[i]) = k}

AllocatingFirst(k) ==
    {t \in TxIds : /\ txs[t].pc = "sequence"
                   /\ <<txs[t].client_id, yyyymmOf(txs[t].invoice_month)>> = k
                   /\ sequences[k] = 0}

C17_AllocationsIncrease ==
    [][\A k \in SeqKeys :
          /\ Cardinality(AllocatingFirst(k)) <= 1
          /\ IF InsertedFor(k) = {}
             THEN sequences'[k] = sequences[k]
             ELSE /\ sequences'[k] = sequences[k] + 1
                  /\ \A i \in InsertedFor(k) : invoices'[i].invoice_no[4] = sequences'[k]]_vars

(* a transaction has allocated and holds the counter row while a generate and a duplicate
   of the same client-month are in flight, the other one at its allocation *)
C17_Witness ==
    \E t, u \in TxIds, k \in SeqKeys :
        /\ txs[t].pc = "commit"
        /\ <<"sequences", k>> \in txs[t].locks
        /\ sequences[k] = 3
        /\ txs[u].pc = "sequence"
        /\ <<txs[u].client_id, yyyymmOf(txs[u].invoice_month)>> = k
        /\ {txs[t].op, txs[u].op} = {"generate", "duplicate"}

----------------------------------------------------------------------------
(* C18: no two invoice rows, soft-deleted ones included, carry the same invoice_no. *)
C18_InvoiceNoUnique ==
    \A i, j \in 1..Len(invoices) :
        i # j => invoices[i].invoice_no # invoices[j].invoice_no

(* a regenerated (soft-deleted) invoice, its successor issued, and the duplicate of that *)
C18_Witness ==
    /\ Len(invoices) = 3
    /\ invoices[1].deleted
    /\ invoices[2].status = "issued" /\ ~invoices[2].deleted
    /\ invoices[3].status = "draft" /\ ~invoices[3].deleted
    /\ \A i \in 1..3 : invoices[i].client_id = 1 /\ invoices[i].invoice_month = <<2026, 12>>

----------------------------------------------------------------------------
(* C19: a statement of a generate call for one client (regenerate_draft included) leaves
   every invoice, invoice item, billing event and sequence counter of every other client
   as it was, and creates none for it, whatever the other transaction in flight does. *)
StatementOfGenerate(t) ==
    /\ txs'[t] # txs[t]
    /\ "generate" \in {txs[t].op, txs'[t].op}

ClientOfStatement(t) ==
    IF txs[t].pc = "idle" THEN txs'[t].client_id ELSE txs[t].client_id

ClientOfItem(its, invs, k) ==
    IF its[k].invoice_id \in 1..Len(invs) THEN invs[its[k].invoice_id].client_id ELSE NULL

RowsOfClientKept(b) ==
    /\ \A i \in 1..Len(invoices') :
          (invoices'[i].client_id = b \/ (i <= Len(invoices) /\ invoices[i].client_id = b))
          => (i <= Len(invoices) /\ invoices'[i] = invoices[i])
    /\ \A k \in 1..Len(items') :
          (ClientOfItem(items', invoices', k) = b
             \/ (k <= Len(items) /\ ClientOfItem(items, invoices, k) = b))
          => (k <= Len(items) /\ items'[k] = items[k])
    /\ \A e \in 1..Len(events') :
          (events'[e].client_id = b \/ (e <= Len(events) /\ events[e].client_id = b))
          => (e <= Len(events) /\ events'[e] = events[e])
    /\ \A k \in SeqKeys : k[1] = b => sequences'[k] = sequences[k]

C19_OtherClientUntouched ==
    [][\A t \in TxIds :
          StatementOfGenerate(t)
          => \A b \in Clients \ {ClientOfStatement(t)} : RowsOfClientKept(b)]_vars

(* client 1 has regenerated its draft and not yet committed while a generate call of
   client 2, which has an invoiced event and an invoice, is in flight *)
C19_Witness ==
    \E t, u \in TxIds :
        /\ txs[t].op = "generate" /\ txs[t].client_id = 1 /\ txs[t].regenerate_draft
        /\ txs[t].pc = "commit" /\ txs[t].response.code = "OK" /\ ~txs[t].response.reused
        /\ txs[t].existing # 0
        /\ txs[u].op = "generate" /\ txs[u].client_id = 2 /\ txs[u].pc # "idle"
        /\ \E e \in 1..Len(events) : events[e].client_id = 2 /\ events[e].status = "INVOICED"
        /\ \E i \in 1..Len(invoices) : invoices[i].client_id = 2 /\ ~invoices[i].deleted

----------------------------------------------------------------------------
(* C20: the invoice a generate call creates has, among its non-deleted items, exactly one
   VAT_7 item, whose amount_krw is the vat_krw of the invoice, and besides it exactly one
   item for every distinct service_code of the events the call consumed; and no
   non-deleted invoice is left without items. *)
ConsumedCodes(evs, invoiceId) ==
    {evs[e].service_code : e \in {j \in 1..Len(evs) : evs[j].invoice_id = invoiceId}}

C20_OneVatItemAndOnePerCode ==
    /\ \A i \in 1..Len(invoices) : ~invoices[i].deleted => LiveItems(items, i) # {}
    /\ \A c \in Clients, m \in InvoiceMonths, d \in InvoiceDates, rg \in BOOLEAN :
          LET done == Generated(c, m, d, rg)
              id == done.response.invoice_id
              its == done.tables[2]
              mine == LiveItems(its, id)
              codes == ConsumedCodes(done.tables[3], id)
              vat == {k \in mine : its[k].service_code = "VAT_7"}
          IN (done.response.code = "OK" /\ ~done.response.reused)
             => /\ Cardinality(vat) = 1
                /\ \A k \in vat : its[k].amount_krw = done.tables[1][id].vat_krw
                /\ Cardinality(mine) = Cardinality(codes) + 1
                /\ \A code \in codes : \E k \in mine : its[k].service_code = code

----------------------------------------------------------------------------
(* C21: every non-deleted invoice has subtotal_krw equal to the sum of amount_krw over its
   non-deleted items whose service_code is not VAT_7, and total_krw equal to
   subtotal_krw + vat_krw. *)
NonVatItems(its, invoiceId) ==
    SelectSeq(its, LAMBDA row : /\ row.invoice_id = invoiceId
                                /\ ~row.deleted
                                /\ row.service_code # "VAT_7")

C21_TotalsMatchItems ==
    \A i \in 1..Len(invoices) :
        ~invoices[i].deleted
        => /\ invoices[i].subtotal_krw = SumAmounts(NonVatItems(items, i))
           /\ invoices[i].total_krw = invoices[i].subtotal_krw + invoices[i].vat_krw

----------------------------------------------------------------------------
(* C22: trunc100(x) is a multiple of 100 and at most x for every amount x >= 0, and every
   monetary value a generate call stores is a multiple of 100: the amount_krw of each
   event it consumes, the amount_krw and unit_price_krw of each item it inserts, and the
   subtotal_krw, vat_krw and total_krw of its invoice. *)
AmountSamples == 0..1000

Hundreds(x) == x % 100 = 0

C22_MultiplesOfHundred ==
    /\ \A x \in AmountSamples : Hundreds(trunc100(x)) /\ trunc100(x) <= x
    /\ \A c \in Clients, m \in InvoiceMonths, d \in InvoiceDates, rg \in BOOLEAN :
          LET done == Generated(c, m, d, rg)
              id == done.response.invoice_id
              invs == done.tables[1]
              its == done.tables[2]
              evs == done.tables[3]
          IN (done.response.code = "OK" /\ ~done.response.reused)
             => /\ Hundreds(invs[id].subtotal_krw)
                /\ Hundreds(invs[id].vat_krw)
                /\ Hundreds(invs[id].total_krw)
                /\ \A k \in LiveItems(its, id) :
                      Hundreds(its[k].amount_krw) /\ Hundreds(its[k].unit_price_krw)
                /\ \A e \in 1..Len(evs) : evs[e].invoice_id = id => Hundreds(evs[e].amount_krw)

(* generate has stored 4600 for a THB event of 120 at 39.1234 (4694.808 before truncation)
   in an invoice with a non-zero VAT line *)
C22_Witness ==
    \E e \in 1..Len(events), i \in 1..Len(invoices) :
        /\ events[e].status = "INVOICED" /\ events[e].invoice_id = i
        /\ events[e].amount_thb = 120 /\ events[e].fx_rate_thbkrw = 391234
        /\ events[e].amount_krw = 4600
        /\ ~invoices[i].deleted /\ invoices[i].vat_krw > 0

----------------------------------------------------------------------------
(* C23: for each event a generate call consumes, the amount_krw written to the event is
   floor(amount_thb * rate / 100) * 100 when the pricing policy is THB_BASED, the product
   being that of the two decimal values, and floor(amount_krw / 100) * 100 when it is
   KRW_FIXED. *)
ExactTrunc100Fx(amountThb, rate) ==
    LET product == BigTrim(BigMul(BigOf(amountThb), BigOf(rate)))
        whole == BigDivSmall(product, FxScale).q
    IN (BigToInt(whole) \div 100) * 100

C23_NormalizedAmounts ==
    \A c \in Clients, m \in InvoiceMonths, d \in InvoiceDates, rg \in BOOLEAN :
        LET done == Generated(c, m, d, rg)
            id == done.response.invoice_id
            evs == done.tables[3]
        IN (done.response.code = "OK" /\ ~done.response.reused)
           => \A e \in 1..Len(evs) :
                 evs[e].invoice_id = id
                 => evs[e].amount_krw =
                       IF events[e].pricing_policy = "THB_BASED"
                       THEN ExactTrunc100Fx(events[e].amount_thb,
                                            done.tables[1][id].fx_rate_thbkrw)
                       ELSE trunc100(events[e].amount_krw)

----------------------------------------------------------------------------
(* C24: the invoice a generate call creates has vat_krw = floor(subtotal_krw * 7 / 100 / 100)
   * 100 and total_krw = subtotal_krw + vat_krw, where subtotal_krw is the sum of the
   amounts of the items inserted for the groups, that is of all its items but the tax
   line. *)
ItemsOfInvoice(its, invoiceId) ==
    SelectSeq(its, LAMBDA row : row.invoice_id = invoiceId /\ ~row.deleted)

C24_VatAndTotal ==
    \A c \in Clients, m \in InvoiceMonths, d \in InvoiceDates, rg \in BOOLEAN :
        LET done == Generated(c, m, d, rg)
            id == done.response.invoice_id
            invoice == done.tables[1][id]
        IN (done.response.code = "OK" /\ ~done.response.reused)
           => /\ invoice.vat_krw = ((invoice.subtotal_krw * 7) \div 10000) * 100
              /\ invoice.total_krw = invoice.subtotal_krw + invoice.vat_krw
              /\ SumAmounts(ItemsOfInvoice(done.tables[2], id))
                    = invoice.subtotal_krw + invoice.vat_krw

(* the invoice of 10500 (OUTBOUND_FEE) and 4600 (TH_SHIPPING): 15100, 1000, 16100 *)
C24_Witness ==
    \E i \in 1..Len(invoices) :
        /\ ~invoices[i].deleted
        /\ invoices[i].subtotal_krw = 15100
        /\ invoices[i].vat_krw = 1000
        /\ invoices[i].total_krw = 16100
        /\ Len(ItemsOfInvoice(items, i)) = 3

----------------------------------------------------------------------------
(* C25: issue answers NOT_FOUND for an id that is missing or soft-deleted and
   INVALID_STATUS for an invoice that is issued or paid, and then changes nothing; for a
   draft it succeeds, the status of that invoice becomes issued and nothing else
   changes. *)
RequestIds == 1..(MaxInvoices + 1)

Issued(invoiceId) == withTransaction(IssueTx(invoiceId), FALSE)

C25_IssueOnlyFromDraft ==
    \A id \in RequestIds :
        LET done == Issued(id)
        IN CASE id \notin 1..Len(invoices) \/ invoices[id].deleted ->
                  done.response.code = "NOT_FOUND" /\ done.tables = db
             [] invoices[id].status \in {"issued", "paid"} ->
                  done.response.code = "INVALID_STATUS" /\ done.tables = db
             [] OTHER ->
                  /\ done.response.code = "OK"
                  /\ invoices[id].status = "draft"
                  /\ done.tables[1] = [invoices EXCEPT ![id].status = "issued"]
                  /\ <<done.tables[2], done.tables[3], done.tables[4], done.tables[5]>>
                        = <<items, events, rates, sequences>>

(* a soft-deleted invoice, a paid one and a draft side by side *)
C25_Witness ==
    \E i, j, k \in 1..Len(invoices) :
        /\ invoices[i].deleted
        /\ ~invoices[j].deleted /\ invoices[j].status = "paid"
        /\ ~invoices[k].deleted /\ invoices[k].status = "draft"

----------------------------------------------------------------------------
(* C26: mark-paid answers NOT_FOUND for an id that is missing or soft-deleted and
   INVALID_STATUS for an invoice that is draft or paid, and then changes nothing; for an
   issued invoice it succeeds, the status of that invoice becomes paid and nothing else
   changes. *)
Paid(invoiceId) == withTransaction(MarkPaidTx(invoiceId), FALSE)

C26_PaidOnlyFromIssued ==
    \A id \in RequestIds :
        LET done == Paid(id)
        IN CASE id \notin 1..Len(invoices) \/ invoices[id].deleted ->
                  done.response.code = "NOT_FOUND" /\ done.tables = db
             [] invoices[id].status \in {"draft", "paid"} ->
                  done.response.code = "INVALID_STATUS" /\ done.tables = db
             [] OTHER ->
                  /\ done.response.code = "OK"
                  /\ invoices[id].status = "issued"
                  /\ done.tables[1] = [invoices EXCEPT ![id].status = "paid"]
                  /\ <<done.tables[2], done.tables[3], done.tables[4], done.tables[5]>>
                        = <<items, events, rates, sequences>>

(* a soft-deleted invoice, an issued one and a draft side by side *)
C26_Witness ==
    \E i, j, k \in 1..Len(invoices) :
        /\ invoices[i].deleted
        /\ ~invoices[j].deleted /\ invoices[j].status = "issued"
        /\ ~invoices[k].deleted /\ invoices[k].status = "draft"
        /\ \E e \in 1..Len(events) : events[e].invoice_id = j

----------------------------------------------------------------------------
(* C27: a generate that creates an invoice marks INVOICED, with the id of the new invoice
   and its frozen rate, exactly the events of the client dated in the invoice month
   (December ends before 1 January of the next year) that were PENDING or, when a draft
   is regenerated, linked to the replaced draft; events_count is their number and every
   other billing event is left as it was. *)
EventsStamped(done, consumed) ==
    LET id == done.response.invoice_id
        evs == done.tables[3]
    IN /\ id = Len(invoices) + 1
       /\ done.response.events_count = Cardinality(consumed)
       /\ Len(evs) = Len(events)
       /\ \A e \in 1..Len(events) :
             IF e \in consumed
             THEN /\ evs[e].status = "INVOICED"
                  /\ evs[e].invoice_id = id
                  /\ evs[e].fx_rate_thbkrw = done.tables[1][id].fx_rate_thbkrw
                  /\ evs[e] = [events[e] EXCEPT !.status = "INVOICED",
                                                !.invoice_id = id,
                                                !.fx_rate_thbkrw = evs[e].fx_rate_thbkrw,
                                                !.amount_krw = evs[e].amount_krw]
             ELSE evs[e] = events[e]

(* the events linked to the non-deleted invoice of the client-month *)
LinkedToReplaced(clientId, invoiceMonth) ==
    LET replaced == LatestLive(invoices, clientId, invoiceMonth)
    IN {e \in 1..Len(events) : replaced # 0 /\ events[e].invoice_id = replaced}

C27_PendingOrRevertedConsumed ==
    \A c \in Clients, m \in InvoiceMonths, d \in InvoiceDates, rg \in BOOLEAN :
        LET done == Generated(c, m, d, rg)
        IN (done.response.code = "OK" /\ ~done.response.reused) =>
              EventsStamped(done, PendingInMonth(events, c, m) \cup LinkedToReplaced(c, m))

(* the statement of the claim: only events that were PENDING are touched *)
C27_ExactlyPendingConsumed ==
    \A c \in Clients, m \in InvoiceMonths, d \in InvoiceDates, rg \in BOOLEAN :
        LET done == Generated(c, m, d, rg)
        IN (done.response.code = "OK" /\ ~done.response.reused) =>
              EventsStamped(done, PendingInMonth(events, c, m))

(* a draft with one event is regenerated while the client has an event dated 1 January *)
C27_Witness ==
    LET done == Generated(1, <<2026, 12>>, 20261231, TRUE)
    IN /\ done.response.code = "OK" /\ ~done.response.reused
       /\ done.response.events_count = 1
       /\ LinkedToReplaced(1, <<2026, 12>>) # {}
       /\ \E e \in 1..Len(events) :
             /\ events[e].client_id = 1
             /\ events[e].event_date = 20270101
             /\ events[e].status = "PENDING"

----------------------------------------------------------------------------
(* C28: generate with regenerateDraft on a client-month whose invoice is a draft soft-deletes
   that draft and all its items and creates a new draft with another id and a strictly
   higher sequence number; the events linked to the old draft are consumed by the new
   invoice, and no billing event is linked to the soft-deleted invoice afterwards. *)
C28_RegenerateReplacesDraft ==
    \A c \in Clients, m \in InvoiceMonths, d \in InvoiceDates :
        LET old == LatestLive(invoices, c, m)
            done == Generated(c, m, d, TRUE)
            invs == done.tables[1]
            new == done.response.invoice_id
        IN (old # 0 /\ invoices[old].status = "draft") =>
              /\ invs[old].deleted
              /\ \A k \in 1..Len(done.tables[2]) :
                    done.tables[2][k].invoice_id = old => done.tables[2][k].deleted
              /\ \A e \in 1..Len(done.tables[3]) : done.tables[3][e].invoice_id # old
              /\ done.response.code = "OK"
              /\ new \in 1..Len(invs) /\ new # old
              /\ ~invs[new].deleted /\ invs[new].status = "draft"
              /\ invs[new].invoice_no[4] > invoices[old].invoice_no[4]
              /\ \A e \in 1..Len(events) :
                    events[e].invoice_id = old => done.tables[3][e].invoice_id = new

----------------------------------------------------------------------------
(* C29: duplicate-admin on a non-deleted issued or paid invoice creates exactly one new draft
   of the same client and month, numbered with a newly allocated sequence value, carrying
   the rate and the totals of the source and copies of its non-deleted items, and leaves
   the source, its items and every billing event as they were; on a draft it answers
   INVALID_STATUS, on a missing or soft-deleted id NOT_FOUND, and then it creates nothing
   and does not advance the counter. *)
Duplicated(sourceInvoiceId) == withTransaction(DuplicateAdminTx(sourceInvoiceId), FALSE)

(* the item rows of an invoice in id order, without the invoice they belong to *)
ItemRows(its, invoiceId) ==
    LET ids == SortedIds(LiveItems(its, invoiceId))
    IN [k \in 1..Len(ids) |-> [its[ids[k]] EXCEPT !.invoice_id = 0]]

C29_DuplicateCopiesFinalized ==
    \A id \in RequestIds :
        LET done == Duplicated(id)
            invs == done.tables[1]
            new == Len(invoices) + 1
        IN CASE id \notin 1..Len(invoices) \/ invoices[id].deleted ->
                  done.response.code = "NOT_FOUND" /\ done.tables = db
             [] invoices[id].status = "draft" ->
                  done.response.code = "INVALID_STATUS" /\ done.tables = db
             [] OTHER ->
                  LET key == KeyOf(invoices[id])
                  IN /\ done.response.code = "OK" /\ done.response.invoice_id = new
                     /\ Len(invs) = new
                     /\ SubSeq(invs, 1, Len(invoices)) = invoices
                     /\ invs[new] = [invoices[id] EXCEPT !.status = "draft",
                                                         !.invoice_no = invs[new].invoice_no]
                     /\ invs[new].invoice_no = invoiceNoOf(key[1], key[2], sequences[key] + 1)
                     /\ \A i \in 1..Len(invoices) : invoices[i].invoice_no # invs[new].invoice_no
                     /\ done.tables[5] = [sequences EXCEPT ![key] = sequences[key] + 1]
                     /\ SubSeq(done.tables[2], 1, Len(items)) = items
                     /\ \A k \in (Len(items) + 1)..Len(done.tables[2]) :
                           done.tables[2][k].invoice_id = new
                     /\ ItemRows(done.tables[2], new) = ItemRows(items, id)
                     /\ done.tables[3] = events
                     /\ done.tables[4] = rates

(* a paid invoice with its items and an event, next to a draft copy of it *)
C29_Witness ==
    \E i, j \in 1..Len(invoices) :
        /\ ~invoices[i].deleted /\ invoices[i].status = "paid"
        /\ Cardinality(LiveItems(items, i)) = 2
        /\ \E e \in 1..Len(events) : events[e].invoice_id = i
        /\ ~invoices[j].deleted /\ invoices[j].status = "draft"
        /\ Cardinality(LiveItems(items, j)) = 2

----------------------------------------------------------------------------
(* C30: the items generate inserts before the tax line are one per distinct service_code of
   the consumed events, in the order in which the codes first appear by ascending event
   id; the qty of an item is the sum of the qty of its events, its amount_krw the sum of
   their normalized amounts, its unit_price_krw truncateToHundred(amount / qty) when qty
   is positive and the amount itself when qty is 0. *)
RECURSIVE SumField(_, _, _)
SumField(evs, ids, field) ==
    IF ids = <<>> THEN 0 ELSE Num(evs[Head(ids)][field]) + SumField(evs, Tail(ids), field)

(* the events an invoice consumed that carry the service code, by ascending id *)
ConsumedWithCode(evs, invoiceId, code) ==
    SortedIds({e \in 1..Len(evs) : evs[e].invoice_id = invoiceId /\ evs[e].service_code = code})

C30_ItemPerServiceCode ==
    \A c \in Clients, m \in InvoiceMonths, d \in InvoiceDates, rg \in BOOLEAN :
        LET done == Generated(c, m, d, rg)
            id == done.response.invoice_id
            its == done.tables[2]
            evs == done.tables[3]
            mine == SortedIds(LiveItems(its, id))
            groups == SubSeq(mine, 1, Len(mine) - 1)
        IN (done.response.code = "OK" /\ ~done.response.reused) =>
              /\ Len(groups) = Cardinality(ConsumedCodes(evs, id))
              /\ \A k \in 1..Len(groups) :
                    LET item == its[groups[k]]
                        of == ConsumedWithCode(evs, id, item.service_code)
                    IN /\ of # <<>>
                       /\ \A j \in 1..(k - 1) :
                             LET before == ConsumedWithCode(evs, id, its[groups[j]].service_code)
                             IN before # <<>> /\ before[1] < of[1]
                       /\ item.qty = SumField(evs, of, "qty")
                       /\ item.amount_krw = SumField(evs, of, "amount_krw")
                       /\ item.unit_price_krw =
                             IF item.qty > 0
                             THEN trunc100(item.amount_krw \div item.qty)
                             ELSE item.amount_krw

(* an invoice with one item for two events of one service code, qty 1 and qty 0 *)
C30_Witness ==
    \E i \in 1..Len(invoices), k \in 1..Len(items), e, f \in 1..Len(events) :
        /\ ~invoices[i].deleted
        /\ items[k].invoice_id = i /\ ~items[k].deleted
        /\ e < f
        /\ events[e].invoice_id = i /\ events[f].invoice_id = i
        /\ events[e].service_code = items[k].service_code
        /\ events[f].service_code = items[k].service_code
        /\ events[e].qty + events[f].qty = 1
        /\ events[e].amount_krw > 0 /\ events[f].amount_krw > 0
        /\ items[k].amount_krw = events[e].amount_krw + events[f].amount_krw


----------------------------------------------------------------------------
(* the amount of an event in the currency its pricing_policy selects: the explicit amount
   when there is one, an explicit 0 included, otherwise unit price times quantity with a
   missing value taken as 0 *)
SourceAmount(policy, amountThb, unitPriceThb, amountKrw, unitPriceKrw, qty) ==
    LET amount == IF policy = "THB_BASED" THEN amountThb ELSE amountKrw
        unitPrice == IF policy = "THB_BASED" THEN unitPriceThb ELSE unitPriceKrw
    IN IF amount # NULL THEN amount
       ELSE (IF unitPrice = NULL THEN 0 ELSE unitPrice) * (IF qty = NULL THEN 0 ELSE qty)

SourceOfRow(r) ==
    SourceAmount(r.pricing_policy, r.amount_thb, r.unit_price_thb, r.amount_krw,
                 r.unit_price_krw, r.qty)

(* the same row with other values in the columns of the currency its policy does not select *)
OtherCurrencyVariants(r) ==
    IF r.pricing_policy = "THB_BASED"
    THEN {[r EXCEPT !.amount_krw = a, !.unit_price_krw = u] : a \in {NULL, 0, 700}, u \in {NULL, 90}}
    ELSE {[r EXCEPT !.amount_thb = a, !.unit_price_thb = u] : a \in {NULL, 0, 700}, u \in {NULL, 90}}

(* C31: POST /billing/events stores, and generate consumes, the amount of the currency the
   pricing_policy selects: the explicit amount field when it is non-null (an explicit 0
   included), otherwise unit_price * qty with missing values taken as 0; the fields of the
   other currency never influence the result. *)
C31_SourceAmountResolved ==
    /\ \A p \in AmountPayloads :
         /\ IF p.pricing_policy = "THB_BASED"
            THEN /\ EventRow(p).amount_thb = SourceOfRow(p)
                 /\ EventRow(p).amount_krw = NULL
            ELSE /\ EventRow(p).amount_krw = trunc100(SourceOfRow(p))
                 /\ EventRow(p).amount_thb = NULL
    /\ \A invoiceDate \in InvoiceDates, regenerateDraft \in BOOLEAN :
         \A done \in {Generated(1, <<2026, 12>>, invoiceDate, regenerateDraft)} :
            (done.response.code = "OK" /\ ~done.response.reused) =>
               \A e \in 1..Len(events) :
                  \A after \in {done.tables[3][e]} :
                     (after.invoice_id = done.response.invoice_id /\ after.status = "INVOICED") =>
                        /\ after.amount_krw =
                              IF events[e].pricing_policy = "THB_BASED"
                              THEN trunc100Fx(SourceOfRow(events[e]), after.fx_rate_thbkrw)
                              ELSE trunc100(SourceOfRow(events[e]))
                        /\ \A other \in OtherCurrencyVariants(events[e]) :
                              normalizedAmount(other, after.fx_rate_thbkrw) = after.amount_krw

(* a stored row without an amount, billed at 40 THB x 3 at 39.1234, and a posted event with
   an explicit amount of 0 next to a unit price, billed at 0, in one invoice *)
C31_Witness ==
    \E e, f \in 1..Len(events) :
        /\ events[e].status = "INVOICED" /\ events[f].status = "INVOICED"
        /\ events[e].pricing_policy = "THB_BASED" /\ events[e].amount_thb = NULL
        /\ events[e].unit_price_thb = 40 /\ events[e].qty = 3 /\ events[e].amount_krw = 4600
        /\ events[f].pricing_policy = "THB_BASED" /\ events[f].amount_thb = 0
        /\ events[f].unit_price_thb = 40 /\ events[f].qty = 3 /\ events[f].amount_krw = 0

----------------------------------------------------------------------------
(* the events linked to an invoice and INVOICED, by ascending id *)
InvoicedBy(invoiceId) ==
    SortedIds({e \in 1..Len(events) : events[e].invoice_id = invoiceId
                                      /\ events[e].status = "INVOICED"})

(* C32: issue(invoiceId) and generate with regenerateDraft=true on the same draft serialize on
   the invoice row: while the invoice is issued a generate in flight on it has answered
   ALREADY_FINALIZED (INVOICE_ALREADY_ISSUED), while it is soft-deleted an issue in flight on
   it has answered NOT_FOUND, and an issued invoice is never soft-deleted, never has a
   soft-deleted item and keeps its events INVOICED. *)
C32_IssueAndRegenerateSerialize ==
    /\ \A t \in TxIds :
         (txs[t].op = "generate" /\ txs[t].regenerate_draft /\ txs[t].existing \in 1..Len(invoices)
            /\ invoices[txs[t].existing].status = "issued") =>
              /\ txs[t].pc = "commit"
              /\ txs[t].response.code = "INVOICE_ALREADY_ISSUED"
    /\ \A t \in TxIds :
         (txs[t].op = "issue" /\ txs[t].id \in 1..Len(invoices) /\ invoices[txs[t].id].deleted) =>
              /\ txs[t].pc = "commit"
              /\ txs[t].response.code = "NOT_FOUND"
    /\ \A i \in 1..Len(invoices) :
         invoices[i].status = "issued" =>
              /\ ~invoices[i].deleted
              /\ \A k \in 1..Len(items) : items[k].invoice_id = i => ~items[k].deleted
              /\ InvoicedBy(i) # <<>>
              /\ \A e \in 1..Len(events) : events[e].invoice_id = i => events[e].status = "INVOICED"
              /\ SumField(events, InvoicedBy(i), "amount_krw") = invoices[i].subtotal_krw

(* issue has answered NOT_FOUND on a draft that a regeneration soft-deleted and replaced,
   while a regeneration has answered INVOICE_ALREADY_ISSUED on the replacement, issued since *)
C32_Witness ==
    \E t, u \in TxIds, i \in 1..Len(invoices) :
        /\ txs[t].op = "issue" /\ txs[t].pc = "commit" /\ txs[t].response.code = "NOT_FOUND"
        /\ txs[t].id \in 1..Len(invoices) /\ invoices[txs[t].id].deleted
        /\ txs[u].op = "generate" /\ txs[u].regenerate_draft /\ txs[u].existing = i
        /\ txs[u].response.code = "INVOICE_ALREADY_ISSUED"
        /\ invoices[i].status = "issued" /\ i > txs[t].id

----------------------------------------------------------------------------
(* C33: in every committed state each billing event is either PENDING with invoice_id and
   fx_rate_thbkrw null, or INVOICED with fx_rate_thbkrw non-null and invoice_id naming a
   non-deleted invoice of the same client; no event is linked to a soft-deleted invoice. *)
C33_EventShapes ==
    \A e \in 1..Len(events) :
        \/ /\ events[e].status = "PENDING"
           /\ events[e].invoice_id = NULL
           /\ events[e].fx_rate_thbkrw = NULL
        \/ /\ events[e].status = "INVOICED"
           /\ events[e].fx_rate_thbkrw # NULL
           /\ events[e].invoice_id \in 1..Len(invoices)
           /\ ~invoices[events[e].invoice_id].deleted
           /\ invoices[events[e].invoice_id].client_id = events[e].client_id

(* an event of client 2 consumed by an invoice of client 2, next to an event of client 1
   that a regeneration or mark-pending reverted after it had been consumed, with a
   soft-deleted invoice in the table *)
C33_Witness ==
    \E e, f \in 1..Len(events), i \in 1..Len(invoices) :
        /\ events[e].client_id = 2 /\ events[e].status = "INVOICED"
        /\ invoices[events[e].invoice_id].client_id = 2
        /\ events[f].client_id = 1 /\ events[f].status = "PENDING"
        /\ events[f].amount_krw # NULL /\ events[f].pricing_policy = "THB_BASED"
        /\ invoices[i].deleted

----------------------------------------------------------------------------
(* the events linked to an invoice, by ascending id *)
LinkedTo(invoiceId) ==
    SortedIds({e \in 1..Len(events) : events[e].invoice_id = invoiceId})

(* C34 as stated: for every non-deleted invoice created by generate, subtotal_krw equals the
   sum of amount_krw over the billing events currently linked to it, after any sequence of
   operations, mark-pending on events of a draft included. *)
C34_SubtotalIsSumOfLinkedEvents ==
    \A i \in 1..Len(invoices) :
        ~invoices[i].deleted =>
            invoices[i].subtotal_krw = SumField(events, LinkedTo(i), "amount_krw")

----------------------------------------------------------------------------
(* the invoice has a live item that aggregates the events of the service code *)
Aggregates(invoiceId, code) ==
    /\ ~invoices[invoiceId].deleted
    /\ \E k \in 1..Len(items) :
          items[k].invoice_id = invoiceId /\ ~items[k].deleted /\ items[k].service_code = code

(* C35 as stated: no billing event is billed twice.  With one event per service code, an
   event that generate has linked to an invoice is aggregated by no earlier invoice that is
   still non-deleted (a later one with its item is a duplicate-admin copy). *)
C35_NoEventBilledTwice ==
    \A e \in 1..Len(events) :
        events[e].status = "INVOICED" =>
            \A a \in 1..Len(invoices) :
                a < events[e].invoice_id => ~Aggregates(a, events[e].service_code)

----------------------------------------------------------------------------
(* the invoices ever inserted for a client-month, soft-deleted ones included *)
InvoicesOfKey(k) == {i \in 1..Len(invoices) : KeyOf(invoices[i]) = k}

(* C36: for each (client, yyyymm) the counter's last_seq is the number of invoices ever
   inserted for the client-month, soft-deleted ones included, and their sequence numbers are
   exactly 1..last_seq; no committed operation advances the counter without inserting an
   invoice. *)
C36_CounterCountsInvoices ==
    \A k \in SeqKeys :
        /\ sequences[k] = Cardinality(InvoicesOfKey(k))
        /\ {invoices[i].invoice_no[4] : i \in InvoicesOfKey(k)} = 1..sequences[k]

(* three invoices of one client-month numbered 1, 2, 3: a soft-deleted draft, an issued
   invoice and its duplicate-admin copy, where a regeneration commits the soft delete of the
   copy and answers NO_PENDING_EVENTS without inserting *)
C36_Witness ==
    \E k \in SeqKeys :
        /\ sequences[k] = 3
        /\ \E i, j, d \in InvoicesOfKey(k) :
              /\ invoices[i].deleted
              /\ invoices[j].status = "issued"
              /\ invoices[d].status = "draft" /\ ~invoices[d].deleted /\ d > j
        /\ \E m \in InvoiceMonths :
              Generated(k[1], m, 20261231, TRUE).response.code = "NO_PENDING_EVENTS"

----------------------------------------------------------------------------
(* the draft of the client-month that generate created and whose events are all still linked
   to it: no event of the month is PENDING, and the rate applicable on the invoice date is
   the one frozen on the draft *)
UnchangedDraft(clientId, invoiceMonth, invoiceDate) ==
    LET existing == ExistingInvoice(invoices, clientId, invoiceMonth)
        fxRateId == ApplicableRate(rates, invoiceDate)
    IN /\ existing # 0
       /\ invoices[existing].status = "draft"
       /\ InvoicedBy(existing) # <<>>
       /\ PendingEvents(events, clientId, monthRange(invoiceMonth)) = <<>>
       /\ fxRateId # 0
       /\ rates[fxRateId].rate = invoices[existing].fx_rate_thbkrw

Totals(invoice) ==
    <<invoice.fx_rate_thbkrw, invoice.subtotal_krw, invoice.vat_krw, invoice.total_krw>>

(* C37: regenerating a draft when no event of the client-month was added or reverted and the
   applicable rate is unchanged produces an invoice with the same fx rate, subtotal, VAT and
   total and the same items as the replaced draft, and writes the same amount_krw on the
   events: the amounts the first generation wrote back do not alter the result. *)
C37_RegenerationRepeats ==
    \A m \in InvoiceMonths, d \in InvoiceDates :
        UnchangedDraft(1, m, d) =>
            \A old \in {ExistingInvoice(invoices, 1, m)} :
            \A done \in {Generated(1, m, d, TRUE)} :
                /\ done.response.code = "OK"
                /\ ~done.response.reused
                /\ done.response.invoice_id = Len(invoices) + 1
                /\ done.tables[1][old].deleted
                /\ Totals(done.tables[1][Len(invoices) + 1]) = Totals(invoices[old])
                /\ ItemRows(done.tables[2], Len(invoices) + 1) = ItemRows(items, old)
                /\ \A e \in 1..Len(events) :
                      events[e].invoice_id = old =>
                         /\ done.tables[3][e].invoice_id = Len(invoices) + 1
                         /\ done.tables[3][e].amount_krw = events[e].amount_krw

(* a draft regenerated from a THB_BASED and a KRW_FIXED event: the replaced draft is
   soft-deleted and its successor carries the same totals and items *)
C37_Witness ==
    \E i, j \in 1..Len(invoices), e, f \in 1..Len(events) :
        /\ i < j /\ invoices[i].deleted /\ ~invoices[j].deleted
        /\ Totals(invoices[j]) = Totals(invoices[i])
        /\ invoices[j].subtotal_krw > 0
        /\ events[e].invoice_id = j /\ events[e].pricing_policy = "THB_BASED"
        /\ events[e].amount_krw > 0
        /\ events[f].invoice_id = j /\ events[f].pricing_policy = "KRW_FIXED"
        /\ events[f].amount_krw > 0

----------------------------------------------------------------------------
(* the rows the next statement of a transaction has to lock *)
WaitsFor(t) ==
    CASE txs[t].pc = "revert" -> EventRowsOfInvoice(txs[t].existing)
      [] txs[t].pc = "rate" ->
            {<<"rates", r>> : r \in {ApplicableRate(rates, txs[t].invoice_date)} \ {0}}
      [] txs[t].pc = "events" ->
            EventRowsInRange(txs[t].client_id, monthRange(txs[t].invoice_month))
      [] txs[t].pc = "sequence" ->
            {<<"sequences", <<txs[t].client_id, yyyymmOf(txs[t].invoice_month)>>>>}
      [] txs[t].pc = "join-event" -> {<<"events", txs[t].ids[txs[t].id]>>}
      [] txs[t].pc = "join-invoice" -> {<<"invoices", txs[t].existing>>}
      [] OTHER -> {}

(* t waits for a row lock that u holds *)
BlockedBy(t, u) == t # u /\ WaitsFor(t) \cap txs[u].locks # {}

(* C38 as stated: a generate with regenerateDraft=true and a mark-pending request on the same
   draft and its events never wait for each other: one of them can always take the locks of
   its next statement. *)
C38_NoDeadlock ==
    \A t, u \in TxIds :
        (txs[t].op = "generate" /\ txs[t].regenerate_draft /\ txs[u].op = "mark-pending") =>
            ~(BlockedBy(t, u) /\ BlockedBy(u, t))

----------------------------------------------------------------------------
(* the log entries of an order, in id order *)
LogsOf(orderId) == SelectSeq(logs, LAMBDA l : l.inbound_order_id = orderId)

StoredStatus(orderId) ==
    IF orders[orderId].deleted THEN NullStatus ELSE orders[orderId].status

(* C39 as stated: the log entries of an inbound order form a chain in id order: the first has
   action create, every later entry's from_status is the previous entry's to_status, and
   the last to_status is the stored status of the order once every request that wrote the
   order has written its entry, concurrent update requests included. *)
C39_LogChain ==
    \A o \in 1..Len(orders) :
        \A L \in {LogsOf(o)} :
            L # <<>> =>
                /\ L[1].action = "create"
                /\ L[1].from_status = NullStatus
                /\ \A k \in 2..Len(L) : L[k].from_status = L[k - 1].to_status
                /\ (\A r \in ReqIds : ~(reqs[r].id = o /\ reqs[r].pc = "log")) =>
                      L[Len(L)].to_status = StoredStatus(o)
====
